---- MODULE Spec2Model ----
(***************************************************************************)
(* Conversa (astrbot_plugin_Conversa, src/main.py): the proactive-trigger  *)
(* scheduler.  One asyncio event loop runs the scheduler task              *)
(* (_scheduler_loop / _tick), the message and command handlers and the     *)
(* debounced save tasks.  Coroutines are atomic between two awaits that    *)
(* really suspend, so the model has one action per such segment and lets   *)
(* the handlers, the timers and the clock move only while the scheduler    *)
(* task is suspended (sleeping, awaiting a reply, cooling down).           *)
(*                                                                         *)
(* Strings the code parses, formats or compares (HH:MM, quiet windows,     *)
(* reminder times, tags) are sequences of one-character strings.           *)
(* Timestamps are whole seconds counted from 2025-01-01 00:00:00 local     *)
(* time; the model's horizon stays inside January 2025, so a date is       *)
(* formatted as "2025-01-DD".                                              *)
(***************************************************************************)
EXTENDS Integers, Sequences, FiniteSets, TLC

VARIABLES
    now,        \* wall clock (seconds)
    cfg,        \* self.cfg: the plugin configuration
    profiles,   \* self._user_profiles: umo -> UserProfile
    states,     \* self._states: umo -> SessionState
    reminders,  \* self._reminders: rid -> Reminder
    tick,       \* the scheduler task: position and locals of _tick
    saveTask,   \* the delayed_save tasks of the session store
    disk,       \* session_data.json / user_data.json as last written
    hist,       \* history of dispatches (observation only)
    budget,     \* what the environment has used of the model's bounds
    qin,        \* input of the pure quiet-window check
    qout        \* its result

vars == <<now, cfg, profiles, states, reminders, tick, saveTask, disk, hist,
          budget, qin, qout>>

-----------------------------------------------------------------------------
(* Characters and strings                                                  *)

DigitChars == <<"0", "1", "2", "3", "4", "5", "6", "7", "8", "9">>

IsDigit(c) == \E i \in 1..10 : DigitChars[i] = c

DigitVal(c) == (CHOOSE i \in 1..10 : DigitChars[i] = c) - 1

\* code points, for the order Python compares strings by
Ord(c) ==
    IF IsDigit(c) THEN 48 + DigitVal(c)
    ELSE IF c = " " THEN 32
    ELSE IF c = "-" THEN 45
    ELSE IF c = ":" THEN 58
    ELSE IF c = "@" THEN 64
    ELSE IF c = "|" THEN 124
    ELSE 100

\* "%02d"
Fmt2(n) == <<DigitChars[(n \div 10) + 1], DigitChars[(n % 10) + 1]>>

\* "%d" for 0..99
FmtD(n) == IF n < 10 THEN <<DigitChars[n + 1]>> ELSE Fmt2(n)

IndexOf(s, c) ==
    IF \E i \in 1..Len(s) : s[i] = c
    THEN CHOOSE i \in 1..Len(s) : s[i] = c /\ \A j \in 1..(i - 1) : s[j] # c
    ELSE 0

\* str.strip()
Strip(s) ==
    LET nb == {i \in 1..Len(s) : s[i] # " "}
    IN  IF nb = {} THEN <<>>
        ELSE LET lo == CHOOSE i \in nb : \A j \in nb : i <= j
                 hi == CHOOSE i \in nb : \A j \in nb : i >= j
             IN  SubSeq(s, lo, hi)

\* s1 < s2 / s1 >= s2 as Python orders str
RECURSIVE StrLess(_, _)
StrLess(a, b) ==
    IF b = <<>> THEN FALSE
    ELSE IF a = <<>> THEN TRUE
    ELSE IF Ord(Head(a)) < Ord(Head(b)) THEN TRUE
    ELSE IF Ord(Head(a)) > Ord(Head(b)) THEN FALSE
    ELSE StrLess(Tail(a), Tail(b))

StrGE(a, b) == ~StrLess(a, b)

-----------------------------------------------------------------------------
(* Clock utilities                                                         *)

SecondsPerMinute == 60
SecondsPerHour == 3600
SecondsPerDay == 86400

TimeOfDay(t) == t % SecondsPerDay
HourOf(t) == TimeOfDay(t) \div SecondsPerHour
MinuteOf(t) == (TimeOfDay(t) % SecondsPerHour) \div SecondsPerMinute
DayOf(t) == t \div SecondsPerDay

\* now.strftime('%Y-%m-%d'), inside January 2025
FmtDate(t) == <<"2", "0", "2", "5", "-", "0", "1", "-">> \o Fmt2(DayOf(t) + 1)

\* now.strftime('%Y-%m-%d %H:%M')
FmtDateMinute(t) == FmtDate(t) \o <<" ">> \o Fmt2(HourOf(t)) \o <<":">> \o Fmt2(MinuteOf(t))

\* None (and the empty tuple) of _parse_hhmm
NoTime == <<>>

\* _parse_hhmm: ^([01]?\d|2[0-3]):([0-5]\d)$ on the stripped string
_parse_hhmm(s) ==
    LET t == Strip(s)
        k == IndexOf(t, ":")
        h == SubSeq(t, 1, k - 1)
        m == SubSeq(t, k + 1, Len(t))
        hourOk ==
            \/ Len(h) = 1 /\ IsDigit(h[1])
            \/ Len(h) = 2 /\ h[1] \in {"0", "1"} /\ IsDigit(h[2])
            \/ Len(h) = 2 /\ h[1] = "2" /\ h[2] \in {"0", "1", "2", "3"}
        minOk == Len(m) = 2 /\ m[1] \in {"0", "1", "2", "3", "4", "5"} /\ IsDigit(m[2])
    IN  IF s = <<>> \/ k = 0 THEN NoTime
        ELSE IF hourOk /\ minOk
        THEN <<IF Len(h) = 1 THEN DigitVal(h[1])
               ELSE 10 * DigitVal(h[1]) + DigitVal(h[2]),
               10 * DigitVal(m[1]) + DigitVal(m[2])>>
        ELSE NoTime

\* time(h, m) as seconds of the day
TimeSec(p) == p[1] * SecondsPerHour + p[2] * SecondsPerMinute

\* _in_quiet: now.time() keeps the seconds
Mut_in_quiet(t, quiet) ==
    LET k == IndexOf(quiet, "-")
        p1 == _parse_hhmm(SubSeq(quiet, 1, k - 1))
        p2 == _parse_hhmm(SubSeq(quiet, k + 1, Len(quiet)))
        nt == TimeOfDay(t)
    IN  IF quiet = <<>> \/ k = 0 THEN FALSE
        ELSE IF p1 = NoTime \/ p2 = NoTime THEN FALSE
        ELSE TimeSec(p1) <= nt /\ nt <= TimeSec(p2)

_in_quiet(t, quiet) ==
    LET k == IndexOf(quiet, "-")
        p1 == _parse_hhmm(SubSeq(quiet, 1, k - 1))
        p2 == _parse_hhmm(SubSeq(quiet, k + 1, Len(quiet)))
        nt == TimeOfDay(t)
    IN  IF quiet = <<>> \/ k = 0 THEN FALSE
        ELSE IF p1 = NoTime \/ p2 = NoTime THEN FALSE
        ELSE IF TimeSec(p1) <= TimeSec(p2)
        THEN TimeSec(p1) <= nt /\ nt <= TimeSec(p2)
        ELSE nt >= TimeSec(p1) \/ nt <= TimeSec(p2)

-----------------------------------------------------------------------------
(* Bounds of the model                                                     *)

MaxEvents == 1      \* handler invocations (messages and commands)
MaxJumps == 1       \* jumps of the clock while the scheduler sleeps
MaxTicks == 2       \* ticks of the scheduler
MaxFails == 1       \* replies that fail
MaxIoErrors == 2    \* writes of a file that fail

Sessions == {"s1", "s2"}

\* how far the clock may jump while the scheduler sleeps: a day, and more
\* than the seven days the ledger keeps a tag
Advances == {86400, 8 * 86400}

\* 2025-01-03 08:59:30
StartTime == 2 * 86400 + 8 * 3600 + 59 * 60 + 30

Str_0900 == <<"0", "9", ":", "0", "0">>
Str_0930 == <<"0", "9", ":", "3", "0">>
Str_quiet == <<"0", "8", ":", "0", "0", "-", "0", "9", ":", "0", "0">>
Str_once == <<"2", "0", "2", "5", "-", "0", "1", "-", "0", "3", " ", "0", "9", ":", "0", "0">>
Str_daily == Str_0900 \o <<"|", "d", "a", "i", "l", "y">>

-----------------------------------------------------------------------------
(* Data classes                                                            *)

\* idle_after_minutes: None
None == -1

\* UserProfile()
UserProfile ==
    [subscribed |-> FALSE, idle_after_minutes |-> None,
     daily_reminders_enabled |-> TRUE, quiet_hours |-> <<>>]

\* SessionState()
SessionState ==
    [last_ts |-> 0, last_fired_tag |-> <<>>, last_fired_tags |-> [x \in {} |-> 0],
     last_user_reply_ts |-> 0, consecutive_no_reply_count |-> 0,
     next_idle_ts |-> 0]

\* SessionState.to_dict, field by field
to_dict(st) ==
    [last_ts |-> st.last_ts,
     last_fired_tag |-> st.last_fired_tag,
     last_fired_tags |-> st.last_fired_tags,
     last_user_reply_ts |-> st.last_user_reply_ts,
     consecutive_no_reply_count |-> st.consecutive_no_reply_count,
     next_idle_ts |-> st.next_idle_ts]

\* a dict as a function: d[k] = v
Put(d, k, v) == [x \in DOMAIN d \cup {k} |-> IF x = k THEN v ELSE d[x]]

\* del d[k] for every k in ks
Drop(d, ks) == [x \in DOMAIN d \ ks |-> d[x]]

TagTtlSeconds == 7 * 86400

\* SessionState.has_fired
Mut_has_fired(st, tag) == FALSE

has_fired(st, tag) == tag \in DOMAIN st.last_fired_tags

Mut_mark_fired(st, tag, t) ==
    [st EXCEPT !.last_fired_tags = Put(st.last_fired_tags, tag, t),
               !.last_fired_tag = tag]

\* SessionState.mark_fired at wall-clock time t
mark_fired(st, tag, t) ==
    LET marked == Put(st.last_fired_tags, tag, t)
        expired == {x \in DOMAIN marked : t - marked[x] > TagTtlSeconds}
    IN  [st EXCEPT !.last_fired_tags = Drop(marked, expired),
                   !.last_fired_tag = tag]

\* the tags of the four trigger families
IdleTag(t) == <<"idle@">> \o FmtDateMinute(t)
DailyTag(n, t, hm) ==
    <<"daily", DigitChars[n + 1], "@">> \o FmtDate(t) \o <<" ">>
        \o Fmt2(hm[1]) \o <<":">> \o Fmt2(hm[2])
RemindDailyTag(rid, t) == <<"remind_daily_">> \o rid \o <<"@">> \o FmtDate(t)
RemindOnceTag(rid, at) == <<"remind_once_">> \o rid \o <<"@">> \o at

-----------------------------------------------------------------------------
(* Configuration                                                           *)

\* int(x or d)
IntOr(x, d) == IF x = 0 THEN d ELSE x

Slot(en, tm, pr) == [enable |-> en, time |-> tm, prompt |-> pr]

BaseCfg ==
    [enable |-> TRUE,
     quiet_hours |-> <<>>,
     max_no_reply_days |-> 0,
     reply_interval_seconds |-> 0,
     history_depth |-> <<>>,
     subscribe_mode |-> "manual",
     auto_resubscribe |-> TRUE,
     enable_idle_greetings |-> TRUE,
     idle_after_minutes |-> 30,
     idle_random_fluctuation_minutes |-> 1,
     idle_prompt_templates |-> TRUE,
     enable_daily_greetings |-> TRUE,
     daily_prompts |-> <<Slot(TRUE, Str_0900, TRUE), Slot(TRUE, Str_0900, TRUE),
                         Slot(FALSE, Str_0930, TRUE)>>,
     enable_reminders |-> TRUE,
     subscribed_users |-> {}]

\* int(x or d) of a value the configuration holds as text raises ValueError
\* unless the text, stripped, is an optional sign and digits
int_raises(x) ==
    LET t == Strip(x)
        digits == IF t # <<>> /\ t[1] \in {"+", "-"} THEN Tail(t) ELSE t
    IN  x # <<>> /\ (digits = <<>> \/ \E i \in 1..Len(digits) : ~IsDigit(digits[i]))

ReplyInterval == IntOr(cfg.reply_interval_seconds, 10)
MaxNoReplyDays == IntOr(cfg.max_no_reply_days, 0)
BaseDelayM == IntOr(cfg.idle_after_minutes, 45)
FluctuationM == IntOr(cfg.idle_random_fluctuation_minutes, 15)

Max(a, b) == IF a >= b THEN a ELSE b

MinIdleMinutes == 30

\* delay_m of _on_any_message and of the lazy initialisation, for the
\* draw r of random.randint(-fluctuation_m, fluctuation_m)
Mut_DelayM(profile, r) ==
    IF profile.idle_after_minutes # None THEN profile.idle_after_minutes
    ELSE BaseDelayM + r

DelayM(profile, r) ==
    IF profile.idle_after_minutes # None THEN profile.idle_after_minutes
    ELSE Max(MinIdleMinutes, BaseDelayM + r)

\* random.randint(-fluctuation_m, fluctuation_m) raises ValueError on an
\* empty range; it is called only when the profile has no delay of its own
DelayRaises(profile) == profile.idle_after_minutes = None /\ FluctuationM < 0

\* the delays the draw can give
DelayChoices(profile) ==
    IF profile.idle_after_minutes # None THEN {DelayM(profile, 0)}
    ELSE {DelayM(profile, r) : r \in (-FluctuationM)..FluctuationM}

-----------------------------------------------------------------------------
(* The event loop: timers and the debounced save                           *)

SleepSeconds == 30

SaveDelaySeconds == 2

\* where the scheduler task is suspended: asyncio.sleep or an awaited reply
SuspendedPcs ==
    {"sleep", "idle_wait", "idle_cool", "daily_wait", "daily_cool",
     "remind_wait", "remind_cool"}

\* where it is suspended in asyncio.sleep
TimerPcs == {"sleep", "idle_cool", "daily_cool", "remind_cool"}

\* the scheduler task is done: "ended" by an exception that left _tick,
\* "cancelled" by terminate, which then flushes and leaves "terminated"
FinishedPcs == {"ended", "cancelled", "terminated"}

\* the event loop can run something else than the scheduler task
Yielded == tick.pc \in SuspendedPcs \cup FinishedPcs

NoDisp == [family |-> "none", umo |-> "", tag |-> <<>>, rid |-> <<>>]

\* the scheduler task in `await asyncio.sleep(30)`, the locals of _tick gone
Mut_Asleep(wake) ==
    [pc |-> "sleep", wake |-> wake - SleepSeconds, now |-> 0, quiet |-> <<>>,
     reply_interval |-> 0, slots |-> <<>>, todo |-> <<>>, umo |-> "",
     rtodo |-> <<>>, fired_ids |-> {}, disp |-> NoDisp, result |-> "none",
     log |-> <<>>, unsub |-> {}, snapshot |-> {}, seen |-> {}, raised |-> {},
     failed |-> {}]

Asleep(wake) ==
    [pc |-> "sleep", wake |-> wake, now |-> 0, quiet |-> <<>>,
     reply_interval |-> 0, slots |-> <<>>, todo |-> <<>>, umo |-> "",
     rtodo |-> <<>>, fired_ids |-> {}, disp |-> NoDisp, result |-> "none",
     log |-> <<>>, unsub |-> {}, snapshot |-> {}, seen |-> {}, raised |-> {},
     failed |-> {}]

\* the scheduler task after it has finished
Finished(pc) == [Asleep(0) EXCEPT !.pc = pc]

\* the times at which the sleeping coroutines are due
TimersDue ==
    {saveTask.pending[k] : k \in 1..Len(saveTask.pending)}
        \cup (IF tick.pc \in TimerPcs THEN {tick.wake} ELSE {})

\* the loop runs its timers in the order of their due times
Earliest(t) == \A u \in TimersDue : t <= u

\* a timer that runs moves the clock to its due time, if not there yet
ClockAt(t) == IF now >= t THEN now ELSE t

\* _debounced_save_session_data called at time t: cancel the task the
\* attribute refers to if it is not done, create a new one
Mut_debounced_save(sv, t) ==
    [pending |-> Append(sv.pending, t + SaveDelaySeconds), refPending |-> TRUE]

_debounced_save_session_data(sv, t) ==
    LET kept == IF sv.refPending
                THEN SubSeq(sv.pending, 1, Len(sv.pending) - 1)
                ELSE sv.pending
    IN  [pending |-> Append(kept, t + SaveDelaySeconds), refPending |-> TRUE]

\* _save_session_data: what json.dump writes
_save_session_data == [s \in DOMAIN states |-> to_dict(states[s])]

\* _save_user_data: the user file holds the profiles and the reminders
_save_user_data(pr, rm) == [profiles |-> pr, reminders |-> rm]

\* the observation of one burst of debounced saves: a call made less than
\* the delay after the previous one continues the burst, any other call
\* opens a new one and keeps the number of writes of the burst it closes
BurstCall(b, t) ==
    IF b.calls > 0 /\ t < b.lastCallAt + SaveDelaySeconds
    THEN [b EXCEPT !.calls = b.calls + 1, !.lastCallAt = t]
    ELSE [calls |-> 1, writes |-> 0, lastCallAt |-> t,
          closed |-> IF b.calls > 0 THEN b.writes ELSE 1]

\* delayed_save after its sleep: the k-th pending task writes the file
SaveTaskRun(k) ==
    /\ Yielded
    /\ k \in 1..Len(saveTask.pending)
    /\ Earliest(saveTask.pending[k])
    /\ now' = ClockAt(saveTask.pending[k])
    /\ disk' = [disk EXCEPT !.sessions = _save_session_data]
    /\ saveTask' =
        [pending |-> SubSeq(saveTask.pending, 1, k - 1)
                        \o SubSeq(saveTask.pending, k + 1, Len(saveTask.pending)),
         refPending |-> saveTask.refPending /\ k # Len(saveTask.pending)]
    /\ hist' = [hist EXCEPT !.burst.writes = hist.burst.writes + 1]
    /\ UNCHANGED <<cfg, profiles, states, reminders, tick, budget, qin, qout>>

\* the host is suspended while the scheduler sleeps with nothing to save;
\* the overdue sleep then ends at once
Advance(d) ==
    /\ tick.pc = "sleep"
    /\ saveTask.pending = <<>>
    /\ budget.jumps < MaxJumps
    /\ now' = now + d
    /\ budget' = [budget EXCEPT !.jumps = budget.jumps + 1]
    /\ UNCHANGED <<cfg, profiles, states, reminders, tick, saveTask, disk,
                   hist, qin, qout>>

-----------------------------------------------------------------------------
(* _tick: the per-session loop                                             *)

\* the order of list(self._user_profiles.items()): the order of insertion
SessionOrder == <<"s1", "s2">>

Known(s) == s \in DOMAIN profiles

\* _parse_daily_slots at the tick's now
_parse_daily_slots(t) ==
    LET daily == cfg.daily_prompts
        usable(n) == daily[n].enable /\ _parse_hhmm(daily[n].time) # NoTime
        info(n) == [num |-> n, time |-> _parse_hhmm(daily[n].time),
                    tag |-> DailyTag(n, t, _parse_hhmm(daily[n].time)),
                    prompt |-> daily[n].prompt]
        nums == {n \in 1..3 : usable(n)}
        nth(i) == CHOOSE n \in nums : Cardinality({m \in nums : m < n}) = i - 1
    IN  [i \in 1..Cardinality(nums) |-> info(nth(i))]

\* the sleep of _scheduler_loop ends and _tick runs up to its loop; an
\* exception raised before the loop (hist_n = int(... or 8)) leaves _tick
\* and is caught by _scheduler_loop outside its `while True`
Mut_TickStart ==
    /\ tick.pc = "sleep"
    /\ Earliest(tick.wake)
    /\ budget.ticks < MaxTicks
    /\ now' = ClockAt(tick.wake)
    /\ budget' = [budget EXCEPT !.ticks = budget.ticks + 1]
    /\ tick' =
        LET t == ClockAt(tick.wake)
        IN  IF int_raises(cfg.history_depth) THEN Finished("ended")
            ELSE [Asleep(0) EXCEPT
                    !.pc = "loop",
                    !.now = t,
                    !.quiet = cfg.quiet_hours,
                    !.reply_interval = ReplyInterval,
                    !.slots = _parse_daily_slots(t),
                    !.todo = SelectSeq(SessionOrder, Known),
                    !.snapshot = DOMAIN profiles]
    /\ hist' = IF ~cfg.enable THEN [hist EXCEPT !.sleepFrom = ClockAt(tick.wake)]
               ELSE hist
    /\ UNCHANGED <<cfg, profiles, states, reminders, saveTask, disk, qin, qout>>

TickStart ==
    /\ tick.pc = "sleep"
    /\ Earliest(tick.wake)
    /\ budget.ticks < MaxTicks
    /\ now' = ClockAt(tick.wake)
    /\ budget' = [budget EXCEPT !.ticks = budget.ticks + 1]
    /\ tick' =
        LET t == ClockAt(tick.wake)
        IN  IF ~cfg.enable THEN Asleep(t + SleepSeconds)
            ELSE IF int_raises(cfg.history_depth) THEN Finished("ended")
            ELSE [Asleep(0) EXCEPT
                    !.pc = "loop",
                    !.now = t,
                    !.quiet = cfg.quiet_hours,
                    !.reply_interval = ReplyInterval,
                    !.slots = _parse_daily_slots(t),
                    !.todo = SelectSeq(SessionOrder, Known),
                    !.snapshot = DOMAIN profiles]
    /\ hist' = IF ~cfg.enable THEN [hist EXCEPT !.sleepFrom = ClockAt(tick.wake)]
               ELSE hist
    /\ UNCHANGED <<cfg, profiles, states, reminders, saveTask, disk, qin, qout>>

\* user_quiet = profile.quiet_hours if profile.quiet_hours else quiet
EffectiveQuiet(profile, quiet) ==
    IF profile.quiet_hours # <<>> THEN profile.quiet_hours ELSE quiet

Mut_InQuietTurn(s) == FALSE

InQuietTurn(s) == _in_quiet(tick.now, EffectiveQuiet(profiles[s], tick.quiet))

\* the condition of _should_auto_unsubscribe; timedelta.days is the floor
Mut_should_auto_unsubscribe(st, t) == FALSE

_should_auto_unsubscribe(st, t) ==
    /\ MaxNoReplyDays > 0
    /\ st.last_user_reply_ts > 0
    /\ (t - st.last_user_reply_ts) \div SecondsPerDay >= MaxNoReplyDays

\* the session at the head of the loop
AtTurn(s) == tick.pc = "loop" /\ tick.todo # <<>> /\ Head(tick.todo) = s

Turn(pc) ==
    [tick EXCEPT !.pc = pc, !.umo = Head(tick.todo), !.todo = Tail(tick.todo),
                 !.seen = tick.seen \cup {Head(tick.todo)}]

\* `continue`: not subscribed, or inside the quiet window
Mut_SessionSkip(s) ==
    /\ AtTurn(s)
    /\ ~profiles[s].subscribed \/ InQuietTurn(s)
    /\ tick' = Turn("loop")
    /\ states' = IF s \in DOMAIN states
                 THEN [states EXCEPT ![s].consecutive_no_reply_count =
                                        states[s].consecutive_no_reply_count + 1]
                 ELSE states
    /\ UNCHANGED <<now, cfg, profiles, reminders, saveTask, disk,
                   hist, budget, qin, qout>>

SessionSkip(s) ==
    /\ AtTurn(s)
    /\ ~profiles[s].subscribed \/ InQuietTurn(s)
    /\ tick' = Turn("loop")
    /\ UNCHANGED <<now, cfg, profiles, states, reminders, saveTask, disk,
                   hist, budget, qin, qout>>

AutoUnsubscribes(s) ==
    /\ profiles[s].subscribed
    /\ ~InQuietTurn(s)
    /\ s \in DOMAIN states
    /\ _should_auto_unsubscribe(states[s], tick.now)

\* _should_auto_unsubscribe returns True: unsubscribe, save, `continue`
SessionAutoUnsubscribe(s) ==
    /\ AtTurn(s)
    /\ AutoUnsubscribes(s)
    /\ profiles' = [profiles EXCEPT ![s].subscribed = FALSE]
    /\ disk' = [disk EXCEPT !.users = _save_user_data(profiles', reminders)]
    /\ tick' = [Turn("loop") EXCEPT !.unsub = tick.unsub \cup {s}]
    /\ hist' = [hist EXCEPT !.unsubscribed = hist.unsubscribed \cup {s}]
    /\ UNCHANGED <<now, cfg, states, reminders, saveTask, budget, qin, qout>>

\* the session reaches _check_idle_greeting
Evaluated(s) ==
    /\ AtTurn(s)
    /\ profiles[s].subscribed
    /\ ~InQuietTurn(s)
    /\ ~AutoUnsubscribes(s)

\* what _check_idle_greeting does for session s
IdleDecision(s) ==
    IF ~cfg.enable_idle_greetings \/ s \notin DOMAIN states THEN "off"
    ELSE IF states[s].next_idle_ts <= 0 /\ profiles[s].subscribed THEN "lazy"
    ELSE IF tick.now < states[s].next_idle_ts THEN "wait"
    ELSE IF has_fired(states[s], IdleTag(tick.now)) THEN "wait"
    ELSE IF ~cfg.idle_prompt_templates THEN "wait"
    ELSE "fire"

\* base_ts = st.last_ts if st.last_ts > 0 else now.timestamp()
LazyBase(st) == IF st.last_ts > 0 THEN st.last_ts ELSE tick.now

\* the deadline is missing and the draw of the delay raises: the
\* exception is caught by the try of the session's turn, which `continue`s
Mut_SessionIdleRaise(s) ==
    /\ Evaluated(s)
    /\ IdleDecision(s) = "lazy"
    /\ DelayRaises(profiles[s])
    /\ tick' = [Turn("daily") EXCEPT !.raised = tick.raised \cup {s}]
    /\ UNCHANGED <<now, cfg, profiles, states, reminders, saveTask, disk,
                   hist, budget, qin, qout>>

SessionIdleRaise(s) ==
    /\ Evaluated(s)
    /\ IdleDecision(s) = "lazy"
    /\ DelayRaises(profiles[s])
    /\ tick' = [Turn("loop") EXCEPT !.raised = tick.raised \cup {s}]
    /\ UNCHANGED <<now, cfg, profiles, states, reminders, saveTask, disk,
                   hist, budget, qin, qout>>

\* the deadline is missing: initialise it, save, and go on to the slots
SessionIdleLazy(s) ==
    /\ Evaluated(s)
    /\ IdleDecision(s) = "lazy"
    /\ ~DelayRaises(profiles[s])
    /\ \E d \in DelayChoices(profiles[s]) :
        /\ states' = [states EXCEPT
                        ![s].next_idle_ts = LazyBase(states[s]) + d * SecondsPerMinute]
        /\ hist' = [hist EXCEPT
                        !.burst = BurstCall(hist.burst, now),
                        !.delay = [umo |-> s, minutes |-> d,
                                   base_ts |-> LazyBase(states[s])]]
    /\ saveTask' = _debounced_save_session_data(saveTask, now)
    /\ tick' = Turn("daily")
    /\ UNCHANGED <<now, cfg, profiles, reminders, disk, budget, qin, qout>>

\* nothing to do for the idle trigger
SessionIdlePass(s) ==
    /\ Evaluated(s)
    /\ IdleDecision(s) \in {"off", "wait"}
    /\ tick' = Turn("daily")
    /\ UNCHANGED <<now, cfg, profiles, states, reminders, saveTask, disk,
                   hist, budget, qin, qout>>

\* a reply is awaited: the scheduler task is suspended in the dispatch
Dispatch(t, pc, family, umo, tag, rid) ==
    LET d == [family |-> family, umo |-> umo, tag |-> tag, rid |-> rid]
    IN  [t EXCEPT !.pc = pc, !.disp = d, !.result = "none",
                  !.log = Append(t.log, d)]

\* ok = await self._proactive_reply(...) for the idle trigger
SessionIdleFire(s) ==
    /\ Evaluated(s)
    /\ IdleDecision(s) = "fire"
    /\ tick' = Dispatch(Turn("idle_wait"), "idle_wait", "idle", s,
                        IdleTag(tick.now), <<>>)
    /\ UNCHANGED <<now, cfg, profiles, states, reminders, saveTask, disk,
                   hist, budget, qin, qout>>

-----------------------------------------------------------------------------
(* The outcome of a dispatch                                               *)

\* "fail": no provider, an exception or an empty completion (False);
\* "sent": the message went out (True); "lost": send_message raised and
\* _send_text swallowed it (True all the same)
Outcomes == {"fail", "sent", "lost"}

Ok(o) == o # "fail"

\* the outcomes other than "sent" are bounded
Spend(o) ==
    /\ o = "sent" \/ budget.fails < MaxFails
    /\ budget' = IF o = "sent" THEN budget
                 ELSE [budget EXCEPT !.fails = budget.fails + 1]

\* _proactive_reply, after sending: if st and profile and profile.subscribed
RecordsActivity(umo, o) ==
    /\ Ok(o)
    /\ umo \in DOMAIN states
    /\ umo \in DOMAIN profiles
    /\ profiles[umo].subscribed

\* ... st.last_ts = now_ts; await self._debounced_save_session_data()
Mut_StatesAfterReply(umo, o) ==
    IF umo \in DOMAIN states THEN [states EXCEPT ![umo].last_ts = now]
    ELSE states

StatesAfterReply(umo, o) ==
    IF RecordsActivity(umo, o) THEN [states EXCEPT ![umo].last_ts = now]
    ELSE states

SaveAfterReply(umo, o) ==
    IF RecordsActivity(umo, o) THEN _debounced_save_session_data(saveTask, now)
    ELSE saveTask

BurstAfterReply(umo, o) ==
    IF RecordsActivity(umo, o) THEN BurstCall(hist.burst, now)
    ELSE hist.burst

\* the ledger as observed: every tag that was ever marked
EverFired(h, umo, tag) == [h EXCEPT ![umo] = h[umo] \cup {tag}]

\* the messages that reached the session, per trigger and calendar day
Sent(h, key, o) ==
    IF o = "sent"
    THEN Put(h, key, IF key \in DOMAIN h THEN h[key] + 1 ELSE 1)
    ELSE h

\* `if reply_interval > 0: await asyncio.sleep(reply_interval)`, then on
Resume(o, cools, pcCool, pcNext) ==
    LET back == [tick EXCEPT
                    !.result = IF Ok(o) THEN "ok" ELSE "failed",
                    !.failed = IF Ok(o) THEN tick.failed
                               ELSE tick.failed \cup {tick.disp.umo}]
    IN  IF cools /\ tick.reply_interval > 0
        THEN [back EXCEPT !.pc = pcCool, !.wake = now + tick.reply_interval]
        ELSE [back EXCEPT !.pc = pcNext]

\* the cooldown sleep is over
CoolDone(pcCool, pcNext) ==
    /\ tick.pc = pcCool
    /\ Earliest(tick.wake)
    /\ now' = ClockAt(tick.wake)
    /\ tick' = [tick EXCEPT !.pc = pcNext]
    /\ UNCHANGED <<cfg, profiles, states, reminders, saveTask, disk, hist,
                   budget, qin, qout>>

\* _check_idle_greeting after the reply
Mut_IdleBookkeeping(st, o, tag) ==
    IF Ok(o) THEN mark_fired(st, tag, now)
    ELSE [st EXCEPT !.consecutive_no_reply_count = st.consecutive_no_reply_count + 1]

IdleBookkeeping(st, o, tag) ==
    IF Ok(o) THEN [mark_fired(st, tag, now) EXCEPT !.next_idle_ts = 0]
    ELSE [st EXCEPT !.consecutive_no_reply_count = st.consecutive_no_reply_count + 1]

IdleReturn(o) ==
    /\ tick.pc = "idle_wait"
    /\ Spend(o)
    /\ LET u == tick.disp.umo
           tag == tick.disp.tag
           replied == StatesAfterReply(u, o)
       IN  /\ states' = [replied EXCEPT ![u] = IdleBookkeeping(replied[u], o, tag)]
           /\ saveTask' = SaveAfterReply(u, o)
           /\ hist' = [hist EXCEPT
                         !.burst = BurstAfterReply(u, o),
                         !.everFired = IF Ok(o) THEN EverFired(hist.everFired, u, tag)
                                       ELSE hist.everFired,
                         !.sent = Sent(hist.sent, <<tick.disp.family, tag, DayOf(now)>>, o),
                         !.cleared = IF Ok(o) THEN hist.cleared \cup {u}
                                     ELSE hist.cleared]
    /\ tick' = Resume(o, Ok(o), "idle_cool", "daily")
    /\ UNCHANGED <<now, cfg, profiles, reminders, disk, qin, qout>>

IdleCoolDone == CoolDone("idle_cool", "daily")

-----------------------------------------------------------------------------
(* _check_daily_greetings                                                  *)

\* the slot the loop over daily_slots stops at (0: none): the first one
\* whose time is now and whose tag has not fired
Mut_DailySlot(s) ==
    LET hit == {i \in 1..Len(tick.slots) :
                   /\ tick.slots[i].time[1] = HourOf(tick.now)
                   /\ tick.slots[i].time[2] = MinuteOf(tick.now)
                   /\ ~has_fired(states[s], tick.slots[i].tag)}
    IN  IF ~cfg.enable_daily_greetings \/ ~profiles[s].daily_reminders_enabled
           \/ s \notin DOMAIN states \/ hit = {}
        THEN 0
        ELSE CHOOSE i \in hit : \A j \in hit : i >= j

DailySlot(s) ==
    LET hit == {i \in 1..Len(tick.slots) :
                   /\ tick.slots[i].time[1] = HourOf(tick.now)
                   /\ tick.slots[i].time[2] = MinuteOf(tick.now)
                   /\ ~has_fired(states[s], tick.slots[i].tag)}
    IN  IF ~cfg.enable_daily_greetings \/ ~profiles[s].daily_reminders_enabled
           \/ s \notin DOMAIN states \/ hit = {}
        THEN 0
        ELSE CHOOSE i \in hit : \A j \in hit : i <= j

\* the slot has a prompt to send
DailyFires(s) == DailySlot(s) # 0 /\ tick.slots[DailySlot(s)].prompt

DailyPass ==
    /\ tick.pc = "daily"
    /\ ~DailyFires(tick.umo)
    /\ tick' = [tick EXCEPT !.pc = "loop"]
    /\ UNCHANGED <<now, cfg, profiles, states, reminders, saveTask, disk,
                   hist, budget, qin, qout>>

DailyFire ==
    /\ tick.pc = "daily"
    /\ DailyFires(tick.umo)
    /\ tick' = Dispatch(tick, "daily_wait", "daily", tick.umo,
                        tick.slots[DailySlot(tick.umo)].tag, <<>>)
    /\ UNCHANGED <<now, cfg, profiles, states, reminders, saveTask, disk,
                   hist, budget, qin, qout>>

DailyBookkeeping(st, o, tag) ==
    IF Ok(o) THEN mark_fired(st, tag, now)
    ELSE [st EXCEPT !.consecutive_no_reply_count = st.consecutive_no_reply_count + 1]

DailyReturn(o) ==
    /\ tick.pc = "daily_wait"
    /\ Spend(o)
    /\ LET u == tick.disp.umo
           tag == tick.disp.tag
           replied == StatesAfterReply(u, o)
       IN  /\ states' = [replied EXCEPT ![u] = DailyBookkeeping(replied[u], o, tag)]
           /\ saveTask' = SaveAfterReply(u, o)
           /\ hist' = [hist EXCEPT
                         !.burst = BurstAfterReply(u, o),
                         !.everFired = IF Ok(o) THEN EverFired(hist.everFired, u, tag)
                                       ELSE hist.everFired,
                         !.sent = Sent(hist.sent, <<tick.disp.family, tag, DayOf(now)>>, o)]
    /\ tick' = Resume(o, Ok(o), "daily_cool", "loop")
    /\ UNCHANGED <<now, cfg, profiles, reminders, disk, qin, qout>>

DailyCoolDone == CoolDone("daily_cool", "loop")

-----------------------------------------------------------------------------
(* _check_reminders and the end of the tick                                *)

\* the order of list(self._reminders.items())
RidOrder == <<<<"R", "1">>, <<"R", "2">>>>

Stored(rid) == rid \in DOMAIN reminders

Reminder(rid) == reminders[rid]

DailySuffix == <<"|", "d", "a", "i", "l", "y">>

\* "|daily" in r.at
IsRecurring(at) ==
    \E i \in 1..(Len(at) - 5) : SubSeq(at, i, i + 5) = DailySuffix

\* r.at.split("|", 1)[0]
RecurringHHMM(at) == SubSeq(at, 1, IndexOf(at, "|") - 1)

ReminderTag(r, t) ==
    IF IsRecurring(r.at) THEN RemindDailyTag(r.id, t) ELSE RemindOnceTag(r.id, r.at)

\* the fire condition, before the ledger is consulted
ReminderDue(r, t) ==
    IF IsRecurring(r.at)
    THEN LET hm == _parse_hhmm(RecurringHHMM(r.at))
         IN  hm # NoTime /\ HourOf(t) = hm[1] /\ MinuteOf(t) = hm[2]
    ELSE StrGE(FmtDateMinute(t), r.at)

ReminderFires(r) ==
    /\ r.umo \in DOMAIN states
    /\ ReminderDue(r, tick.now)
    /\ ~has_fired(states[r.umo], ReminderTag(r, tick.now))

\* the per-session loop is over: _check_reminders takes its snapshot
LoopDone ==
    /\ tick.pc = "loop"
    /\ tick.todo = <<>>
    /\ tick' = [tick EXCEPT
                  !.pc = "remind",
                  !.rtodo = IF cfg.enable_reminders
                            THEN LET rids == SelectSeq(RidOrder, Stored)
                                 IN  [i \in 1..Len(rids) |-> Reminder(rids[i])]
                            ELSE <<>>]
    /\ UNCHANGED <<now, cfg, profiles, states, reminders, saveTask, disk,
                   hist, budget, qin, qout>>

ReminderPass ==
    /\ tick.pc = "remind"
    /\ tick.rtodo # <<>>
    /\ ~ReminderFires(Head(tick.rtodo))
    /\ tick' = [tick EXCEPT !.rtodo = Tail(tick.rtodo)]
    /\ UNCHANGED <<now, cfg, profiles, states, reminders, saveTask, disk,
                   hist, budget, qin, qout>>

\* ok = await self._proactive_reminder_reply(r.umo, r.content)
ReminderFire ==
    /\ tick.pc = "remind"
    /\ tick.rtodo # <<>>
    /\ ReminderFires(Head(tick.rtodo))
    /\ LET r == Head(tick.rtodo)
       IN  /\ tick' = Dispatch([tick EXCEPT !.rtodo = Tail(tick.rtodo)],
                               "remind_wait",
                               IF IsRecurring(r.at) THEN "remind_daily" ELSE "remind_once",
                               r.umo, ReminderTag(r, tick.now), r.id)
           /\ hist' = IF IsRecurring(r.at) THEN hist
                      ELSE [hist EXCEPT !.once =
                              Put(hist.once, r.id,
                                  IF r.id \in DOMAIN hist.once
                                  THEN hist.once[r.id] + 1 ELSE 1)]
    /\ UNCHANGED <<now, cfg, profiles, states, reminders, saveTask, disk,
                   budget, qin, qout>>

\* whether the tag is marked: a recurring reminder marks it on success, a
\* one-shot reminder whatever the outcome
Mut_ReminderMarks(family, o) == family = "remind_once"

ReminderMarks(family, o) == family = "remind_once" \/ Ok(o)

\* fired_ids.append(rid): the one-shot reminders, whatever the outcome
Mut_FiredIds(ids, family, rid, o) ==
    IF family = "remind_once" /\ Ok(o) THEN ids \cup {rid} ELSE ids

FiredIds(ids, family, rid, o) ==
    IF family = "remind_once" THEN ids \cup {rid} ELSE ids

ReminderReturn(o) ==
    /\ tick.pc = "remind_wait"
    /\ Spend(o)
    /\ LET d == tick.disp
           marks == ReminderMarks(d.family, o)
           next == Resume(o, marks, "remind_cool", "remind")
       IN  /\ states' = IF marks
                        THEN [states EXCEPT ![d.umo] = mark_fired(states[d.umo], d.tag, now)]
                        ELSE states
           /\ hist' = [hist EXCEPT
                         !.everFired = IF marks THEN EverFired(hist.everFired, d.umo, d.tag)
                                       ELSE hist.everFired,
                         !.sent = Sent(hist.sent, <<d.family, d.rid, DayOf(now)>>, o)]
           /\ tick' = [next EXCEPT
                         !.fired_ids = FiredIds(tick.fired_ids, d.family, d.rid, o)]
    /\ UNCHANGED <<now, cfg, profiles, reminders, saveTask, disk, qin, qout>>

ReminderCoolDone == CoolDone("remind_cool", "remind")

\* the reminders that fired are popped and the user file is saved; _tick
\* ends with the debounced save; _scheduler_loop sleeps again
TickEnd ==
    /\ tick.pc = "remind"
    /\ tick.rtodo = <<>>
    /\ reminders' = Drop(reminders, tick.fired_ids)
    /\ disk' = IF tick.fired_ids # {}
               THEN [disk EXCEPT !.users = _save_user_data(profiles, reminders')]
               ELSE disk
    /\ saveTask' = _debounced_save_session_data(saveTask, now)
    /\ hist' = [hist EXCEPT !.burst = BurstCall(hist.burst, now),
                            !.sleepFrom = now]
    /\ tick' = Asleep(now + SleepSeconds)
    /\ UNCHANGED <<now, cfg, profiles, states, budget, qin, qout>>

-----------------------------------------------------------------------------
(* The message handler                                                     *)

\* a handler runs while the scheduler task is suspended or after it has
\* finished, until the plugin is terminated
Handles ==
    /\ Yielded
    /\ tick.pc # "terminated"
    /\ budget.events < MaxEvents
    /\ budget' = [budget EXCEPT !.events = budget.events + 1]

\* if umo not in self._states: self._states[umo] = SessionState()
WithState(umo) == IF umo \in DOMAIN states THEN states ELSE Put(states, umo, SessionState)

WithProfile(umo) ==
    IF umo \in DOMAIN profiles THEN profiles ELSE Put(profiles, umo, UserProfile)

\* profile.subscribed after the auto-subscribe and auto-resubscribe blocks;
\* last_user_reply_ts has just been set to now_ts
SubscribedAfterMessage(profile, now_ts) ==
    LET auto == IF cfg.subscribe_mode = "auto" THEN TRUE ELSE profile.subscribed
    IN  IF ~auto /\ now_ts > 0 /\ cfg.auto_resubscribe THEN TRUE ELSE auto

\* the two debounced saves at the end are called without await: the
\* coroutines are created and never run; an exception in the computation of
\* the delay is caught and leaves next_idle_ts as it is
_on_any_message(umo) ==
    /\ Handles
    /\ LET profile == WithProfile(umo)[umo]
           sub == SubscribedAfterMessage(profile, now)
           st == [WithState(umo)[umo] EXCEPT
                    !.last_ts = now,
                    !.last_user_reply_ts = now,
                    !.consecutive_no_reply_count = 0]
           h == [hist EXCEPT !.unsubscribed =
                    IF sub THEN hist.unsubscribed \ {umo} ELSE hist.unsubscribed]
       IN  /\ profiles' = [WithProfile(umo) EXCEPT ![umo].subscribed = sub]
           /\ IF sub /\ cfg.enable_idle_greetings /\ ~DelayRaises(profile)
              THEN \E d \in DelayChoices(profile) :
                    /\ states' = [WithState(umo) EXCEPT
                                    ![umo] = [st EXCEPT !.next_idle_ts =
                                                 now + d * SecondsPerMinute]]
                    /\ hist' = [h EXCEPT
                                  !.delay = [umo |-> umo, minutes |-> d, base_ts |-> now],
                                  !.cleared = hist.cleared \ {umo}]
              ELSE /\ states' = [WithState(umo) EXCEPT ![umo] = st]
                   /\ hist' = h
    /\ UNCHANGED <<now, cfg, reminders, tick, saveTask, disk, qin, qout>>

-----------------------------------------------------------------------------
(* The command handler (/conversa ...)                                     *)

\* the list subscribed_users of the configuration after the sync: the
\* sessions that are subscribed
_sync_subscribed_users_to_config(pr) == {u \in DOMAIN pr : pr[u].subscribed}

\* `unwatch`: the session is unsubscribed, the user file is saved and the
\* list subscribed_users of the configuration is written
_cmd_unwatch(umo) ==
    /\ Handles
    /\ profiles' = [WithProfile(umo) EXCEPT ![umo].subscribed = FALSE]
    /\ disk' = [disk EXCEPT !.users = _save_user_data(profiles', reminders)]
    /\ cfg' = [cfg EXCEPT !.subscribed_users = _sync_subscribed_users_to_config(profiles')]
    /\ UNCHANGED <<now, states, reminders, tick, saveTask, hist, qin, qout>>

\* the values of `set after` that are tried, in minutes (0.25 and 1.5 hours)
SetAfterMinutes == {15, 90}

\* `set after <hours>`, minutes = int(hours * 60): the profile is created if
\* there is none; from half an hour on the delay of the session is set and
\* its idle deadline is now + minutes * 60; the user file is saved at once
\* and the session file debounced
_cmd_set_after(umo, minutes) ==
    /\ Handles
    /\ IF minutes >= 30
       THEN /\ profiles' = [WithProfile(umo) EXCEPT ![umo].idle_after_minutes = minutes]
            /\ states' = [WithState(umo) EXCEPT
                            ![umo].next_idle_ts = now + minutes * SecondsPerMinute]
            /\ disk' = [disk EXCEPT !.users = _save_user_data(profiles', reminders)]
            /\ saveTask' = _debounced_save_session_data(saveTask, now)
            /\ hist' = [hist EXCEPT !.burst = BurstCall(hist.burst, now),
                                    !.cleared = hist.cleared \ {umo}]
       ELSE /\ profiles' = WithProfile(umo)
            /\ UNCHANGED <<states, disk, saveTask, hist>>
    /\ UNCHANGED <<now, cfg, reminders, tick, qin, qout>>

-----------------------------------------------------------------------------
(* terminate                                                               *)

\* task.cancel() on the save task the attribute refers to, if it is not done
Mut_CancelSave(sv) == sv

CancelSave(sv) ==
    [pending |-> IF sv.refPending THEN SubSeq(sv.pending, 1, Len(sv.pending) - 1)
                 ELSE sv.pending,
     refPending |-> FALSE]

\* the second half of terminate: the pending saves are cancelled and both
\* files are written
Flush ==
    /\ saveTask' = CancelSave(saveTask)
    /\ disk' = [sessions |-> _save_session_data,
                users |-> _save_user_data(profiles, reminders)]
    /\ tick' = Finished("terminated")
    /\ UNCHANGED <<now, cfg, profiles, states, reminders, hist, budget, qin, qout>>

\* terminate is called.  If the scheduler task is not done it is cancelled
\* and awaited: CancelledError is raised at the await the task is suspended
\* in, passes the `except Exception` clauses of the dispatch and of the
\* session's turn, and is caught by _scheduler_loop, which returns.  If the
\* task is done (an exception ended it) terminate goes straight on.
terminate ==
    \/ /\ tick.pc \in SuspendedPcs
       /\ tick' = Finished("cancelled")
       /\ UNCHANGED <<now, cfg, profiles, states, reminders, saveTask, disk,
                      hist, budget, qin, qout>>
    \/ /\ tick.pc = "ended"
       /\ Flush

\* terminate resumes after `await self._loop_task`
terminate_flush ==
    /\ tick.pc = "cancelled"
    /\ Flush

-----------------------------------------------------------------------------
(* The plugin is loaded again                                              *)

\* SessionState.from_dict, field by field
from_dict(data) ==
    [last_ts |-> data.last_ts,
     last_fired_tag |-> data.last_fired_tag,
     last_fired_tags |-> data.last_fired_tags,
     last_user_reply_ts |-> data.last_user_reply_ts,
     consecutive_no_reply_count |-> data.consecutive_no_reply_count,
     next_idle_ts |-> data.next_idle_ts]

\* every loaded profile that the list of the configuration names is set
\* to subscribed
_sync_subscribed_users_from_config(pr) ==
    [u \in DOMAIN pr |-> IF u \in cfg.subscribed_users
                         THEN [pr[u] EXCEPT !.subscribed = TRUE]
                         ELSE pr[u]]

\* after terminate the host constructs the plugin anew: the two files are
\* loaded, the subscriptions synced from the configuration, and a new
\* scheduler task starts with its sleep
__init__ ==
    /\ tick.pc = "terminated"
    /\ profiles' = _sync_subscribed_users_from_config(disk.users.profiles)
    /\ reminders' = disk.users.reminders
    /\ states' = [s \in DOMAIN disk.sessions |-> from_dict(disk.sessions[s])]
    /\ saveTask' = [pending |-> <<>>, refPending |-> FALSE]
    /\ tick' = Asleep(now + SleepSeconds)
    /\ hist' = [hist EXCEPT !.sleepFrom = now]
    /\ UNCHANGED <<now, cfg, disk, budget, qin, qout>>

-----------------------------------------------------------------------------
(* The scheduler's specification                                           *)

NoDict == [x \in {} |-> 0]

NoDelay == [umo |-> "", minutes |-> 0, base_ts |-> 0]

\* sleepFrom: when the sleep of the loop began; cleared: the sessions whose
\* idle deadline a successful idle fire has cleared, with no message and no
\* `set after` of the session since; unsubscribed: the sessions that were
\* auto-unsubscribed and that no message has resubscribed since
InitHist ==
    [everFired |-> [s \in Sessions |-> {}],
     sent |-> NoDict,
     once |-> NoDict,
     burst |-> [calls |-> 0, writes |-> 0, lastCallAt |-> 0, closed |-> 1],
     delay |-> NoDelay,
     sleepFrom |-> StartTime,
     cleared |-> {},
     unsubscribed |-> {},
     ioerrors |-> 0]

Yesterday == StartTime - SecondsPerDay

\* the plugin as loaded from its files when the model starts: one
\* subscribed session, last active on the day before, and one reminder
Loaded(c, override, last_reply, next_idle, at) ==
    [cfg |-> c,
     profiles |-> Put(NoDict, "s1",
                      [UserProfile EXCEPT !.subscribed = TRUE,
                                          !.idle_after_minutes = override]),
     states |-> Put(NoDict, "s1",
                    [SessionState EXCEPT
                        !.last_ts = Yesterday,
                        !.last_user_reply_ts = last_reply,
                        !.next_idle_ts = next_idle]),
     reminders |-> Put(NoDict, RidOrder[1],
                       [id |-> RidOrder[1], umo |-> "s1", at |-> at])]

UnsubscribingCfg == [BaseCfg EXCEPT !.max_no_reply_days = 1, !.reply_interval_seconds = -1]

Scenarios ==
    {Loaded(BaseCfg, 30, Yesterday, Yesterday + 30 * SecondsPerMinute, Str_once),
     Loaded([UnsubscribingCfg EXCEPT !.quiet_hours = Str_quiet],
            None, Yesterday, 0, Str_daily),
     Loaded(UnsubscribingCfg, None, 0, 0, Str_daily),
     Loaded([BaseCfg EXCEPT !.enable = FALSE], None, Yesterday, 0, Str_once)}

NoInput == <<>>

\* ticks: the ticks counted as done when the model starts
InitWith(sc, ticks) ==
    /\ now = StartTime
    /\ cfg = sc.cfg
    /\ profiles = sc.profiles
    /\ states = sc.states
    /\ reminders = sc.reminders
    /\ tick = Asleep(StartTime + SleepSeconds)
    /\ saveTask = [pending |-> <<>>, refPending |-> FALSE]
    /\ disk = [sessions |-> [s \in DOMAIN sc.states |-> to_dict(sc.states[s])],
               users |-> _save_user_data(sc.profiles, sc.reminders)]
    /\ hist = InitHist
    /\ budget = [events |-> 0, jumps |-> 0, ticks |-> ticks, fails |-> 0]

InitFrom(sc) == InitWith(sc, 0)

Init ==
    /\ \E sc \in Scenarios : InitFrom(sc)
    /\ qin = NoInput
    /\ qout = NoInput

Next ==
    \/ \E d \in Advances : Advance(d)
    \/ \E k \in 1..Len(saveTask.pending) : SaveTaskRun(k)
    \/ \E s \in Sessions : _on_any_message(s)
    \/ TickStart
    \/ \E s \in Sessions : SessionSkip(s)
    \/ \E s \in Sessions : SessionAutoUnsubscribe(s)
    \/ \E s \in Sessions : SessionIdleLazy(s)
    \/ \E s \in Sessions : SessionIdlePass(s)
    \/ \E s \in Sessions : SessionIdleFire(s)
    \/ \E o \in Outcomes : IdleReturn(o)
    \/ IdleCoolDone
    \/ DailyPass
    \/ DailyFire
    \/ \E o \in Outcomes : DailyReturn(o)
    \/ DailyCoolDone
    \/ LoopDone
    \/ ReminderPass
    \/ ReminderFire
    \/ \E o \in Outcomes : ReminderReturn(o)
    \/ ReminderCoolDone
    \/ TickEnd

Spec == Init /\ [][Next]_vars

-----------------------------------------------------------------------------
(* The scheduler and the commands of a session: the idle trigger and a     *)
(* daily slot are due for the session in the same tick.  The scheduler is  *)
(* followed for one tick more than MaxTicks: the tick of an idle fire, the *)
(* tick after it and a tick after a jump of the clock.                     *)

CmdScenarios ==
    {Loaded(BaseCfg, 30, Yesterday, Yesterday + 30 * SecondsPerMinute, Str_once)}

InitCmd ==
    /\ \E sc \in CmdScenarios : InitWith(sc, -1)
    /\ qin = NoInput
    /\ qout = NoInput

NextCmd ==
    \/ \E d \in Advances : Advance(d)
    \/ \E k \in 1..Len(saveTask.pending) : SaveTaskRun(k)
    \/ \E s \in Sessions : _on_any_message(s)
    \/ \E s \in Sessions : _cmd_unwatch(s)
    \/ \E s \in Sessions, m \in SetAfterMinutes : _cmd_set_after(s, m)
    \/ TickStart
    \/ \E s \in Sessions : SessionSkip(s)
    \/ \E s \in Sessions : SessionIdleLazy(s)
    \/ \E s \in Sessions : SessionIdlePass(s)
    \/ \E s \in Sessions : SessionIdleFire(s)
    \/ \E o \in Outcomes : IdleReturn(o)
    \/ IdleCoolDone
    \/ DailyPass
    \/ DailyFire
    \/ \E o \in Outcomes : DailyReturn(o)
    \/ DailyCoolDone
    \/ LoopDone
    \/ ReminderFire
    \/ \E o \in Outcomes : ReminderReturn(o)
    \/ ReminderCoolDone
    \/ TickEnd

SpecCmd == InitCmd /\ [][NextCmd]_vars

-----------------------------------------------------------------------------
(* The scheduler under a configuration that makes it raise: a history      *)
(* depth that is no number (raised by _tick before its loop), and a        *)
(* negative fluctuation (raised in the turn of a session without a delay   *)
(* of its own, here s1; s2 has one, and its idle trigger is due)           *)

Str_all == <<"a", "l", "l">>

Str_10 == <<"1", "0">>

InitErr ==
    /\ \/ InitFrom(Loaded([BaseCfg EXCEPT !.history_depth = Str_all],
                           30, Yesterday, Yesterday + 30 * SecondsPerMinute, Str_once))
       \/ LET sc == Loaded([BaseCfg EXCEPT !.history_depth = Str_10,
                                           !.idle_random_fluctuation_minutes = -1],
                           None, Yesterday, 0, Str_daily)
          IN  InitFrom([sc EXCEPT
                  !.profiles = Put(sc.profiles, "s2",
                                   [UserProfile EXCEPT !.subscribed = TRUE,
                                                       !.idle_after_minutes = 30]),
                  !.states = Put(sc.states, "s2",
                                 [SessionState EXCEPT
                                     !.last_ts = Yesterday,
                                     !.last_user_reply_ts = Yesterday,
                                     !.next_idle_ts = Yesterday + 30 * SecondsPerMinute])])
    /\ qin = NoInput
    /\ qout = NoInput

\* the steps of a tick in progress
TickStep ==
    \/ \E s \in Sessions : SessionIdleRaise(s)
    \/ \E s \in Sessions : SessionIdleLazy(s)
    \/ \E s \in Sessions : SessionIdlePass(s)
    \/ \E s \in Sessions : SessionIdleFire(s)
    \/ \E o \in Outcomes : IdleReturn(o)
    \/ IdleCoolDone
    \/ DailyPass
    \/ DailyFire
    \/ \E o \in Outcomes : DailyReturn(o)
    \/ DailyCoolDone
    \/ LoopDone
    \/ ReminderPass
    \/ ReminderFire
    \/ \E o \in Outcomes : ReminderReturn(o)
    \/ ReminderCoolDone
    \/ TickEnd

NextErr ==
    \/ \E k \in 1..Len(saveTask.pending) : SaveTaskRun(k)
    \/ \E s \in Sessions : _on_any_message(s)
    \/ TickStart
    \/ TickStep

\* the event loop runs the tasks that are ready and the timers that are
\* due, and every awaited reply comes back
SpecErr ==
    /\ InitErr
    /\ [][NextErr]_vars
    /\ WF_vars(TickStep)
    /\ WF_vars(\E k \in 1..Len(saveTask.pending) : SaveTaskRun(k))

-----------------------------------------------------------------------------
(* The scheduler and the shutdown of the plugin                            *)

InitStop ==
    /\ \/ InitFrom(Loaded(BaseCfg, 30, Yesterday,
                           Yesterday + 30 * SecondsPerMinute, Str_once))
       \/ InitFrom(Loaded([BaseCfg EXCEPT !.history_depth = Str_all],
                           30, Yesterday, Yesterday + 30 * SecondsPerMinute, Str_once))
    /\ qin = NoInput
    /\ qout = NoInput

NextStop ==
    \/ \E k \in 1..Len(saveTask.pending) : SaveTaskRun(k)
    \/ \E s \in Sessions : _on_any_message(s)
    \/ terminate
    \/ terminate_flush
    \/ TickStart
    \/ \E s \in Sessions : SessionIdleLazy(s)
    \/ \E s \in Sessions : SessionIdlePass(s)
    \/ \E s \in Sessions : SessionIdleFire(s)
    \/ \E o \in Outcomes : IdleReturn(o)
    \/ IdleCoolDone
    \/ DailyPass
    \/ DailyFire
    \/ \E o \in Outcomes : DailyReturn(o)
    \/ DailyCoolDone
    \/ LoopDone
    \/ ReminderFire
    \/ \E o \in Outcomes : ReminderReturn(o)
    \/ ReminderCoolDone
    \/ TickEnd

SpecStop == InitStop /\ [][NextStop]_vars

-----------------------------------------------------------------------------
(* Auto-unsubscription, shutdown and reload: s1 was subscribed with        *)
(* `watch`, so the list of the configuration names it; its last reply is a *)
(* day old and max_no_reply_days is 1.  In a second configuration the     *)
(* history depth is no number and the scheduler task ends by itself.       *)

InitReload ==
    /\ \E depth \in {<<>>, Str_all} :
          InitFrom(Loaded([UnsubscribingCfg EXCEPT !.subscribed_users = {"s1"},
                                                  !.history_depth = depth],
                          None, Yesterday, 0, Str_daily))
    /\ qin = NoInput
    /\ qout = NoInput

NextReload ==
    \/ \E k \in 1..Len(saveTask.pending) : SaveTaskRun(k)
    \/ \E s \in Sessions : _on_any_message(s)
    \/ terminate
    \/ terminate_flush
    \/ __init__
    \/ TickStart
    \/ \E s \in Sessions : SessionSkip(s)
    \/ \E s \in Sessions : SessionAutoUnsubscribe(s)
    \/ \E s \in Sessions : SessionIdlePass(s)
    \/ DailyFire
    \/ \E o \in Outcomes : DailyReturn(o)
    \/ LoopDone
    \/ ReminderPass
    \/ ReminderFire
    \/ \E o \in Outcomes : ReminderReturn(o)
    \/ TickEnd

SpecReload == InitReload /\ [][NextReload]_vars

-----------------------------------------------------------------------------
(* The scheduler and a quiet window of a session.  s1 has a window of its  *)
(* own that is open when the model starts and closes at 09:00 or at 09:01; *)
(* its idle deadline passes in the window, and the one enabled slot is at  *)
(* 09:00.  There is no global window, so a session that a message creates  *)
(* has none.  The scheduler is followed for four ticks, from 09:00:00 to   *)
(* the first tick after 09:01:00.                                          *)

InitWindow ==
    /\ \E w \in {Str_quiet, <<"0", "8", ":", "0", "0", "-", "0", "9", ":", "0", "1">>} :
          LET sc == Loaded([BaseCfg EXCEPT
                              !.daily_prompts = <<Slot(TRUE, Str_0900, TRUE),
                                                  Slot(FALSE, Str_0900, TRUE),
                                                  Slot(FALSE, Str_0930, TRUE)>>],
                           30, Yesterday, StartTime + 15,
                           FmtDateMinute(StartTime + SecondsPerDay))
          IN  InitWith([sc EXCEPT !.profiles["s1"].quiet_hours = w], -2)
    /\ qin = NoInput
    /\ qout = NoInput

NextWindow ==
    \/ \E k \in 1..Len(saveTask.pending) : SaveTaskRun(k)
    \/ \E s \in Sessions : _on_any_message(s)
    \/ TickStart
    \/ \E s \in Sessions : SessionSkip(s)
    \/ \E s \in Sessions : SessionIdleLazy(s)
    \/ \E s \in Sessions : SessionIdlePass(s)
    \/ \E s \in Sessions : SessionIdleFire(s)
    \/ \E o \in Outcomes : IdleReturn(o)
    \/ IdleCoolDone
    \/ DailyPass
    \/ DailyFire
    \/ \E o \in Outcomes : DailyReturn(o)
    \/ DailyCoolDone
    \/ LoopDone
    \/ ReminderPass
    \/ TickEnd

SpecWindow == InitWindow /\ [][NextWindow]_vars

-----------------------------------------------------------------------------
(* The idle delay on its own: the configurations of the delay, a session   *)
(* that was just active or never was, and no trigger that is due           *)

\* (idle_after_minutes, idle_random_fluctuation_minutes) as configured
DelayPairs == {<<45, 15>>, <<45, 0>>, <<0, 15>>, <<10, 5>>, <<100, 10>>}

\* idle_after_minutes of the profile
DelayOverrides == {None, 30, 90}

DelayCfg(pair) ==
    [BaseCfg EXCEPT
        !.idle_after_minutes = pair[1],
        !.idle_random_fluctuation_minutes = pair[2],
        !.auto_resubscribe = FALSE,
        !.daily_prompts = <<Slot(FALSE, Str_0900, TRUE), Slot(FALSE, Str_0900, TRUE),
                            Slot(FALSE, Str_0930, TRUE)>>]

InitDelay ==
    /\ \E pair \in DelayPairs, override \in DelayOverrides, last \in {0, StartTime} :
        InitFrom([cfg |-> DelayCfg(pair),
                  profiles |-> Put(NoDict, "s1",
                                   [UserProfile EXCEPT !.subscribed = TRUE,
                                                       !.idle_after_minutes = override]),
                  states |-> Put(NoDict, "s1", [SessionState EXCEPT !.last_ts = last]),
                  reminders |-> NoDict])
    /\ qin = NoInput
    /\ qout = NoInput

NextDelay ==
    \/ \E k \in 1..Len(saveTask.pending) : SaveTaskRun(k)
    \/ \E s \in Sessions : _on_any_message(s)
    \/ TickStart
    \/ \E s \in Sessions : SessionSkip(s)
    \/ \E s \in Sessions : SessionIdleLazy(s)
    \/ \E s \in Sessions : SessionIdlePass(s)
    \/ DailyPass
    \/ LoopDone
    \/ TickEnd

SpecDelay == InitDelay /\ [][NextDelay]_vars

-----------------------------------------------------------------------------
(* _in_quiet on its own: a window string, a time, and the answer           *)

\* the ends of a window, as (hour, minute)
QuietTimes == {<<0, 0>>, <<7, 0>>, <<9, 5>>, <<12, 0>>, <<23, 0>>, <<23, 59>>}

\* the seconds of the day of now
QuietNows ==
    {0, 7 * 3600 - 1, 7 * 3600, 7 * 3600 + 30, 9 * 3600 + 5 * 60, 12 * 3600,
     23 * 3600, 23 * 3600 + 30 * 60, 86399}

\* "%02d:%02d", "%d:%02d" and the first with blanks around it
QuietFormats == {"padded", "short", "spaced"}

FormatHHMM(p, fmt) ==
    IF fmt = "short" THEN FmtD(p[1]) \o <<":">> \o Fmt2(p[2])
    ELSE IF fmt = "spaced" THEN <<" ">> \o Fmt2(p[1]) \o <<":">> \o Fmt2(p[2]) \o <<" ">>
    ELSE Fmt2(p[1]) \o <<":">> \o Fmt2(p[2])

Str_2300 == <<"2", "3", ":", "0", "0">>

\* windows without a "-", or with an end that is no HH:MM
MalformedWindows ==
    {Str_2300,
     Str_2300 \o <<"-">>,
     Str_2300 \o <<"-", "2", "4", ":", "0", "0">>,
     Str_2300 \o <<"-", "0", "7", ":", "6", "0">>,
     Str_2300 \o <<"-", "0", "7", "0", "0">>,
     Str_2300 \o <<"-", "7">>,
     Str_2300 \o <<"-", "0", "7", ":", "0", "0", "-", "0", "8", ":", "0", "0">>,
     <<"2", "5", ":", "0", "0", "-", "0", "7", ":", "0", "0">>}

InitQuiet ==
    /\ InitFrom(Loaded([BaseCfg EXCEPT !.enable = FALSE], None, Yesterday, 0, Str_once))
    /\ \/ \E a \in QuietTimes, b \in QuietTimes, fmt \in QuietFormats, t \in QuietNows :
            qin = [wellFormed |-> TRUE, a |-> a, b |-> b, t |-> t,
                   quiet |-> FormatHHMM(a, fmt) \o <<"-">> \o FormatHHMM(b, fmt)]
       \/ \E w \in MalformedWindows, t \in QuietNows :
            qin = [wellFormed |-> FALSE, a |-> <<0, 0>>, b |-> <<0, 0>>, t |-> t,
                   quiet |-> w]
    /\ qout = NoInput

QuietEval ==
    /\ qin # NoInput
    /\ qout = NoInput
    /\ qout' = <<_in_quiet(qin.t, qin.quiet)>>
    /\ UNCHANGED <<now, cfg, profiles, states, reminders, tick, saveTask, disk,
                   hist, budget, qin>>

SpecQuiet == InitQuiet /\ [][QuietEval]_vars

-----------------------------------------------------------------------------
(* The scheduler when the files cannot be written: `open(path, 'w')`       *)
(* raises and the file is as it was, or json.dump stops part-way and what  *)
(* is left of the file no longer loads (it reads as no entry at all).      *)
(* _save_session_data and _save_user_data catch the error and log it.      *)
(* Two configurations: the idle trigger and a one-shot reminder of s1 are  *)
(* due, or s1 is to be auto-unsubscribed.                                  *)

\* what a write that failed can leave of the session file
LeftOfSessions == {disk.sessions, NoDict}

\* what a write that failed can leave of the user file
LeftOfUsers == {disk.users, _save_user_data(NoDict, NoDict)}

IoError == [hist EXCEPT !.ioerrors = hist.ioerrors + 1]

\* delayed_save after its sleep; _save_session_data fails
SaveTaskFail(k) ==
    /\ Yielded
    /\ hist.ioerrors < MaxIoErrors
    /\ k \in 1..Len(saveTask.pending)
    /\ Earliest(saveTask.pending[k])
    /\ now' = ClockAt(saveTask.pending[k])
    /\ \E left \in LeftOfSessions : disk' = [disk EXCEPT !.sessions = left]
    /\ saveTask' =
        [pending |-> SubSeq(saveTask.pending, 1, k - 1)
                        \o SubSeq(saveTask.pending, k + 1, Len(saveTask.pending)),
         refPending |-> saveTask.refPending /\ k # Len(saveTask.pending)]
    /\ hist' = IoError
    /\ UNCHANGED <<cfg, profiles, states, reminders, tick, budget, qin, qout>>

\* _should_auto_unsubscribe returns True; _save_user_data fails
SessionAutoUnsubscribeFail(s) ==
    /\ AtTurn(s)
    /\ AutoUnsubscribes(s)
    /\ hist.ioerrors < MaxIoErrors
    /\ profiles' = [profiles EXCEPT ![s].subscribed = FALSE]
    /\ \E left \in LeftOfUsers : disk' = [disk EXCEPT !.users = left]
    /\ tick' = [Turn("loop") EXCEPT !.unsub = tick.unsub \cup {s}]
    /\ hist' = [IoError EXCEPT !.unsubscribed = hist.unsubscribed \cup {s}]
    /\ UNCHANGED <<now, cfg, states, reminders, saveTask, budget, qin, qout>>

Mut_TickEndFail ==
    /\ tick.pc = "remind"
    /\ tick.rtodo = <<>>
    /\ tick.fired_ids # {}
    /\ hist.ioerrors < MaxIoErrors
    /\ reminders' = Drop(reminders, tick.fired_ids)
    /\ \E left \in LeftOfUsers : disk' = [disk EXCEPT !.users = left]
    /\ hist' = [IoError EXCEPT !.sleepFrom = now]
    /\ tick' = Asleep(now + SleepSeconds)
    /\ UNCHANGED <<now, cfg, profiles, states, saveTask, budget, qin, qout>>

\* the end of the tick; the reminders that fired are popped and
\* _save_user_data fails
TickEndFail ==
    /\ tick.pc = "remind"
    /\ tick.rtodo = <<>>
    /\ tick.fired_ids # {}
    /\ hist.ioerrors < MaxIoErrors
    /\ reminders' = Drop(reminders, tick.fired_ids)
    /\ \E left \in LeftOfUsers : disk' = [disk EXCEPT !.users = left]
    /\ saveTask' = _debounced_save_session_data(saveTask, now)
    /\ hist' = [IoError EXCEPT !.burst = BurstCall(hist.burst, now),
                               !.sleepFrom = now]
    /\ tick' = Asleep(now + SleepSeconds)
    /\ UNCHANGED <<now, cfg, profiles, states, budget, qin, qout>>

InitDisk ==
    /\ \E sc \in {Loaded(BaseCfg, 30, Yesterday,
                          Yesterday + 30 * SecondsPerMinute, Str_once),
                   Loaded(UnsubscribingCfg, None, Yesterday, 0, Str_daily)} :
           InitFrom(sc)
    /\ qin = NoInput
    /\ qout = NoInput

NextDisk ==
    \/ \E k \in 1..Len(saveTask.pending) : SaveTaskRun(k)
    \/ \E k \in 1..Len(saveTask.pending) : SaveTaskFail(k)
    \/ \E s \in Sessions : _on_any_message(s)
    \/ TickStart
    \/ \E s \in Sessions : SessionSkip(s)
    \/ \E s \in Sessions : SessionAutoUnsubscribe(s)
    \/ \E s \in Sessions : SessionAutoUnsubscribeFail(s)
    \/ \E s \in Sessions : SessionIdleLazy(s)
    \/ \E s \in Sessions : SessionIdlePass(s)
    \/ \E s \in Sessions : SessionIdleFire(s)
    \/ \E o \in Outcomes : IdleReturn(o)
    \/ IdleCoolDone
    \/ DailyPass
    \/ DailyFire
    \/ \E o \in Outcomes : DailyReturn(o)
    \/ DailyCoolDone
    \/ LoopDone
    \/ ReminderPass
    \/ ReminderFire
    \/ \E o \in Outcomes : ReminderReturn(o)
    \/ ReminderCoolDone
    \/ TickEnd
    \/ TickEndFail

SpecDisk == InitDisk /\ [][NextDisk]_vars

-----------------------------------------------------------------------------
(* The fire condition of a one-shot reminder on its own: a schedule string *)
(* that `remind add` stores, a tick time, and the answer                   *)

\* the scheduled times of day, as (hour, minute)
DueTimes == {<<0, 30>>, <<1, 30>>, <<9, 0>>, <<10, 0>>, <<23, 59>>}

\* the scheduled days: 2025-01-03 and 2025-01-04
DueDays == {2, 3}

\* the tick times, from 2025-01-03 00:00:00 to 2025-01-05 00:00:00
DueNows ==
    {d * SecondsPerDay + h * SecondsPerHour + sec :
        d \in {2, 3}, h \in {0, 1, 2, 9, 10, 20}, sec \in {0, 30 * 60 + 30}}
      \cup {3 * SecondsPerDay - 30, 4 * SecondsPerDay}

\* m_once of `remind add`: ^\d{4}-\d{2}-\d{2}\s+\d{1,2}:\d{2} with one
\* blank between the date and the time
m_once(at) ==
    /\ Len(at) \in {15, 16}
    /\ \A i \in {1, 2, 3, 4, 6, 7, 9, 10} : IsDigit(at[i])
    /\ at[5] = "-" /\ at[8] = "-" /\ at[11] = " "
    /\ \A i \in 12..(Len(at) - 3) : IsDigit(at[i])
    /\ at[Len(at) - 2] = ":"
    /\ IsDigit(at[Len(at) - 1]) /\ IsDigit(at[Len(at)])

InitDue ==
    /\ InitFrom(Loaded([BaseCfg EXCEPT !.enable = FALSE], None, Yesterday, 0, Str_once))
    /\ \E d \in DueDays, hm \in DueTimes, fmt \in {"padded", "short"}, t \in DueNows :
          qin = [scheduled |-> d * SecondsPerDay + hm[1] * SecondsPerHour
                                 + hm[2] * SecondsPerMinute,
                 t |-> t,
                 at |-> FmtDate(d * SecondsPerDay) \o <<" ">> \o FormatHHMM(hm, fmt)]
    /\ qout = NoInput

\* `if now_time_str >= reminder_time_str` for a reminder with the string
DueEval ==
    /\ qin # NoInput
    /\ qout = NoInput
    /\ m_once(qin.at)
    /\ qout' = <<ReminderDue([id |-> RidOrder[1], umo |-> "s1", at |-> qin.at], qin.t)>>
    /\ UNCHANGED <<now, cfg, profiles, states, reminders, tick, saveTask, disk,
                   hist, budget, qin>>

SpecDue == InitDue /\ [][DueEval]_vars

-----------------------------------------------------------------------------
(* A one-shot reminder that is due, through a shutdown and a reload.  The  *)
(* reminder is of s1, whose idle trigger is due as well, or of s2, a       *)
(* session the session file has no entry for; in a third configuration    *)
(* the history depth is no number and the scheduler task ends by itself.   *)
(* Ticks in progress are fair: every awaited reply comes back and every    *)
(* cooldown ends.                                                          *)

InitPending ==
    /\ LET sc == Loaded(BaseCfg, 30, Yesterday,
                        Yesterday + 30 * SecondsPerMinute, Str_once)
       IN  \/ InitFrom(sc)
           \/ InitFrom([sc EXCEPT !.reminders[RidOrder[1]].umo = "s2"])
           \/ InitFrom([sc EXCEPT !.cfg.history_depth = Str_all])
    /\ qin = NoInput
    /\ qout = NoInput

\* the steps of a tick in progress, from its session loop to its end
PendingStep ==
    \/ \E s \in Sessions : SessionIdleLazy(s)
    \/ \E s \in Sessions : SessionIdleFire(s)
    \/ \E o \in Outcomes : IdleReturn(o)
    \/ IdleCoolDone
    \/ DailyPass
    \/ DailyFire
    \/ \E o \in Outcomes : DailyReturn(o)
    \/ DailyCoolDone
    \/ LoopDone
    \/ ReminderPass
    \/ ReminderFire
    \/ \E o \in Outcomes : ReminderReturn(o)
    \/ ReminderCoolDone
    \/ TickEnd

NextPending ==
    \/ \E k \in 1..Len(saveTask.pending) : SaveTaskRun(k)
    \/ terminate
    \/ terminate_flush
    \/ __init__
    \/ TickStart
    \/ PendingStep

SpecPending ==
    /\ InitPending
    /\ [][NextPending]_vars
    /\ WF_vars(PendingStep)

-----------------------------------------------------------------------------
(* The period of the ticks.  The loop sleeps 30 s after each tick, so the  *)
(* time from one snapshot to the next is 30 s plus what the tick took.     *)
(* s1 and s2 are subscribed, two slots are at 09:00, the cooldown is the   *)
(* default of 10 s, and both idle deadlines pass at 09:00:15, between      *)
(* the first tick and the second.  Three ticks are followed.               *)

InitPeriod ==
    /\ LET sc == Loaded(BaseCfg, 30, Yesterday, StartTime + 45,
                        FmtDateMinute(StartTime + SecondsPerDay))
       IN  InitWith([sc EXCEPT
                        !.profiles = Put(sc.profiles, "s2", sc.profiles["s1"]),
                        !.states = Put(sc.states, "s2", sc.states["s1"])], -1)
    /\ qin = NoInput
    /\ qout = NoInput

NextPeriod ==
    \/ \E k \in 1..Len(saveTask.pending) : SaveTaskRun(k)
    \/ TickStart
    \/ \E s \in Sessions : SessionIdleLazy(s)
    \/ \E s \in Sessions : SessionIdlePass(s)
    \/ \E s \in Sessions : SessionIdleFire(s)
    \/ \E o \in Outcomes : IdleReturn(o)
    \/ IdleCoolDone
    \/ DailyPass
    \/ DailyFire
    \/ \E o \in Outcomes : DailyReturn(o)
    \/ DailyCoolDone
    \/ LoopDone
    \/ ReminderPass
    \/ TickEnd

SpecPeriod == InitPeriod /\ [][NextPeriod]_vars

-----------------------------------------------------------------------------
(* Properties                                                              *)

\* a reply is awaited for the dispatch tick.disp
InFlight == tick.pc \in {"idle_wait", "daily_wait", "remind_wait"}

\* C1: for every session and trigger family, no dispatch is in flight for
\* a tag that has ever been in the session's fired-tag ledger: a trigger
\* whose tag is recorded is not dispatched again, in the same tick or in a
\* later one.
C1_NoDispatchForFiredTag ==
    InFlight => tick.disp.tag \notin hist.everFired[tick.disp.umo]

\* C1: a later tick finds a stored reminder due again in the minute of a
\* tag that is in the ledger, and is about to pass it.
C1_Witness ==
    /\ budget.ticks >= 2
    /\ tick.pc = "remind"
    /\ tick.rtodo # <<>>
    /\ ReminderDue(Head(tick.rtodo), tick.now)
    /\ ReminderTag(Head(tick.rtodo), tick.now)
          \in DOMAIN states[Head(tick.rtodo).umo].last_fired_tags

\* C2: a one-shot reminder is attempted at most once, and once the tick
\* that attempted it is over it is no longer in the store, whatever the
\* outcome of the dispatch.
C2_OneShotRemoved ==
    \A rid \in DOMAIN hist.once :
        /\ hist.once[rid] <= 1
        /\ tick.pc = "sleep" => rid \notin DOMAIN reminders

\* C2: the tick is over, the one-shot reminder was attempted, no message
\* of it reached the session, and it is gone from the store.
C2_Witness ==
    /\ tick.pc = "sleep"
    /\ hist.once # NoDict
    /\ \A rid \in DOMAIN hist.once :
        /\ rid \notin DOMAIN reminders
        /\ \A k \in DOMAIN hist.sent : k[2] # rid

\* C3: a recurring reminder sends at most one message per calendar day,
\* and it is still in the store after it has fired.
C3_RecurringOncePerDay ==
    \A k \in DOMAIN hist.sent :
        k[1] = "remind_daily" =>
            /\ hist.sent[k] <= 1
            /\ k[2] \in DOMAIN reminders
            /\ IsRecurring(reminders[k[2]].at)

\* C3: a later tick of the same day evaluates the recurring reminder in
\* its minute after its message of the day has been sent.
C3_Witness ==
    /\ tick.pc = "remind"
    /\ tick.rtodo # <<>>
    /\ IsRecurring(Head(tick.rtodo).at)
    /\ ReminderDue(Head(tick.rtodo), tick.now)
    /\ <<"remind_daily", Head(tick.rtodo).id, DayOf(tick.now)>> \in DOMAIN hist.sent

\* the session is subscribed and its last reply, a recorded one, is
\* max_no_reply_days whole days old, or older, as configured
ReplyOverdue(s) ==
    /\ profiles[s].subscribed
    /\ cfg.max_no_reply_days > 0
    /\ s \in DOMAIN states
    /\ states[s].last_user_reply_ts > 0
    /\ (tick.now - states[s].last_user_reply_ts) \div 86400 >= cfg.max_no_reply_days

DispatchesTo(s) == {i \in 1..Len(tick.log) : tick.log[i].umo = s}

\* C5 (as stated): the tick that auto-unsubscribes a session dispatches no
\* trigger of any family for it, reminders included.
C5_NoDispatchWhenUnsubscribing ==
    \A s \in tick.unsub : DispatchesTo(s) = {}

\* the quiet window in effect for session s in the tick in progress
QuietOf(s) ==
    IF s \in DOMAIN profiles /\ profiles[s].quiet_hours # <<>>
    THEN profiles[s].quiet_hours ELSE tick.quiet

\* C10 (as stated): a tick whose now is inside a session's effective quiet
\* window dispatches no trigger of any family for it, reminders included.
C10_NoDispatchInQuietWindow ==
    \A i \in 1..Len(tick.log) :
        ~_in_quiet(tick.now, QuietOf(tick.log[i].umo))

\* the debounced save of the session store, between two steps: at most
\* one task is pending; a burst that is closed wrote once; an open burst
\* has written at most once, and until it has, its one task is pending and
\* due the delay after the burst's last call
DebounceInv ==
    /\ Len(saveTask.pending) <= 1
    /\ hist.burst.closed = 1
    /\ hist.burst.calls > 0 =>
        \/ hist.burst.writes = 0
           /\ saveTask.pending = <<hist.burst.lastCallAt + 2>>
        \/ hist.burst.writes = 1 /\ saveTask.pending = <<>>

\* the step in which a delayed save writes the session file
SessionFileWritten == hist'.burst.writes > hist.burst.writes

\* C6: the calls of one burst of debounced session saves (each less than
\* 2s after the one before) lead to one write of the session file; the
\* write comes 2s or more after the last call of the burst and puts the
\* sessions on disk as they are in memory then; at most one save task is
\* pending at any time.
C6_DebounceCoalesces ==
    /\ []DebounceInv
    /\ [][SessionFileWritten =>
            /\ now' >= hist.burst.lastCallAt + 2
            /\ disk'.sessions = [s \in DOMAIN states |-> to_dict(states[s])]
            /\ states' = states
            /\ hist'.burst.writes = 1
            /\ saveTask'.pending = <<>>]_vars

\* C6: a burst of three calls has been written once.
C6_Witness ==
    /\ hist.burst.calls >= 3
    /\ hist.burst.writes = 1
    /\ saveTask.pending = <<>>
    /\ disk.sessions = _save_session_data

\* C7: when the reply of an idle dispatch comes back as a success, the
\* session's next_idle_ts is 0, the tag "idle@<minute of the tick's now>"
\* is in its ledger, and the tick has dispatched the idle trigger for the
\* session exactly once; the dispatch was begun by a tick at or after the
\* deadline then set.
C7_IdleFiring ==
    [][tick.pc = "idle_wait" /\ tick'.pc # "idle_wait" /\ tick'.result = "ok" =>
        LET u == tick.disp.umo
        IN  /\ states'[u].next_idle_ts = 0
            /\ (<<"idle@">> \o FmtDateMinute(tick.now))
                   \in DOMAIN states'[u].last_fired_tags
            /\ Cardinality({i \in 1..Len(tick'.log) :
                              /\ tick'.log[i].family = "idle"
                              /\ tick'.log[i].umo = u}) = 1]_vars

\* C7: the session has an idle delay of 30 minutes of its own and was last
\* active a day before the tick; the idle dispatch succeeded, the deadline
\* is cleared and the tag is recorded.
C7_Witness ==
    /\ tick.pc = "idle_cool"
    /\ tick.result = "ok"
    /\ tick.disp.family = "idle"
    /\ profiles[tick.disp.umo].idle_after_minutes = 30
    /\ states[tick.disp.umo].next_idle_ts = 0
    /\ tick.disp.tag \in DOMAIN states[tick.disp.umo].last_fired_tags
    /\ Len(tick.log) = 1

InWindow(a, b, t) ==
    LET ta == a[1] * 3600 + a[2] * 60
        tb == b[1] * 3600 + b[2] * 60
    IN  IF ta <= tb THEN ta <= t /\ t <= tb
        ELSE t >= ta \/ t <= tb

\* C9: for a window "A-B" of two well-formed times, _in_quiet is true iff
\* A <= now <= B when A <= B, and iff now >= A or now <= B when A > B, now
\* being the time of day with its seconds; for a window with no "-" or
\* with an end that is no HH:MM it is false.
C9_QuietWindow ==
    qout # NoInput =>
        qout[1] = (qin.wellFormed /\ InWindow(qin.a, qin.b, qin.t))

\* C9: the window 23:00-07:00 wraps midnight and holds 23:30.
C9_Witness ==
    /\ qout = <<TRUE>>
    /\ qin.quiet = Str_2300 \o <<"-", "0", "7", ":", "0", "0">>
    /\ qin.t = 23 * 3600 + 30 * 60

\* C11 (as stated): whenever an idle or a daily dispatch begins for a
\* session, the session's subscribed flag is true, whatever commands and
\* messages arrived while the tick was suspended.
C11_DispatchOnlyToSubscribed ==
    [][tick'.pc \in {"idle_wait", "daily_wait"} /\ tick.pc # tick'.pc =>
        profiles[tick'.disp.umo].subscribed]_vars

\* C12 (as stated): no exception raised in a tick ends the scheduler loop;
\* the task of the loop finishes only by cancellation.
C12_LoopSurvivesErrors == tick.pc # "ended"

\* an idle or a daily dispatch is in flight
SessionDispatch == tick.pc \in {"idle_wait", "daily_wait"}

\* the tick in progress goes back to the sleep of the loop: it has come to
\* the end of _check_reminders, every session of its snapshot has had its
\* turn, and the debounced save of the sessions is pending
TickCompletes ==
    tick.pc # "sleep" /\ tick'.pc = "sleep" =>
        /\ tick.pc = "remind"
        /\ tick.seen = tick.snapshot
        /\ saveTask'.pending # <<>>

\* C13 (as amended): a session whose evaluation raised gets no idle and no
\* daily dispatch in the rest of the tick (a session whose dispatch merely
\* failed is not skipped); a tick ends only after every session of its
\* snapshot has had its turn and the reminders were checked, with the
\* debounced save requested; and a tick in which a session raised or a
\* dispatch failed does come to that end.
C13_FailureIsolation ==
    /\ [](SessionDispatch => tick.disp.umo \notin tick.raised)
    /\ [][TickCompletes]_vars
    /\ (tick.raised \cup tick.failed # {}) ~> (tick.pc = "sleep")

\* C13: the evaluation of s1 raised, s2 was dispatched to afterwards in the
\* same tick, and the tick has come to its reminders.
C13_Witness ==
    /\ tick.pc = "remind"
    /\ tick.raised = {"s1"}
    /\ tick.seen = {"s1", "s2"}
    /\ \E i \in 1..Len(tick.log) : tick.log[i].umo = "s2"

\* C13 (as stated): a session whose evaluation raised or whose dispatch
\* failed gets no idle and no daily dispatch in the rest of the tick, and
\* the tick still gives every session its turn, checks the reminders and
\* requests the save.
C13_FailureSkipsSession ==
    /\ [](SessionDispatch => tick.disp.umo \notin tick.raised \cup tick.failed)
    /\ [][TickCompletes]_vars
    /\ (tick.raised \cup tick.failed # {}) ~> (tick.pc = "sleep")

\* C14: a tick starts only while the scheduler task is in the sleep of its
\* loop, that is after the previous tick has come to its end, and no
\* earlier than 30 seconds after that sleep began.
C14_TicksNeverOverlap ==
    [][budget'.ticks > budget.ticks =>
        /\ tick.pc = "sleep"
        /\ now' >= hist.sleepFrom + 30]_vars

\* C14: the second tick has started; the first one took time (a cooldown)
\* and the sleep before the second began when the first had ended.
C14_Witness ==
    /\ budget.ticks = 2
    /\ tick.pc = "loop"
    /\ hist.sleepFrom > StartTime + 30
    /\ tick.now >= hist.sleepFrom + 30

\* a one-shot reminder is in the store although its tag is in the ledger
\* of its session
OneShotHalfApplied ==
    \E rid \in DOMAIN reminders :
        /\ ~IsRecurring(reminders[rid].at)
        /\ reminders[rid].umo \in DOMAIN states
        /\ (<<"remind_once_">> \o rid \o <<"@">> \o reminders[rid].at)
               \in DOMAIN states[reminders[rid].umo].last_fired_tags

\* C15 (as stated): a cancellation ends the scheduler task only in the
\* sleep between two ticks, never in a tick that has started; so when no
\* tick is in progress no one-shot reminder is in the store with its tag
\* marked as fired.
C15_CancelOnlyInSleep ==
    /\ [][tick'.pc = "cancelled" => tick.pc = "sleep"]_vars
    /\ [](tick.pc \in {"sleep", "ended", "cancelled", "terminated"}
            => ~OneShotHalfApplied)

\* C16: when terminate has returned no debounced save is pending and both
\* files hold what is in memory; the step that ends terminate writes both
\* files, whether or not a save was pending; and nothing writes afterwards.
C16_ShutdownFlush ==
    /\ [](tick.pc = "terminated" =>
            /\ saveTask.pending = <<>>
            /\ disk.sessions = [s \in DOMAIN states |-> to_dict(states[s])]
            /\ disk.users = [profiles |-> profiles, reminders |-> reminders])
    /\ [][tick.pc # "terminated" /\ tick'.pc = "terminated" =>
            /\ disk'.sessions = [s \in DOMAIN states |-> to_dict(states[s])]
            /\ disk'.users = [profiles |-> profiles, reminders |-> reminders]]_vars
    /\ [][tick.pc = "terminated" => disk' = disk /\ states' = states
                                       /\ profiles' = profiles]_vars

\* C16: terminate has returned; a debounced save had been requested and
\* was cancelled before it wrote, and what it would have written (a fired
\* tag) is on disk.
C16_Witness ==
    /\ tick.pc = "terminated"
    /\ hist.burst.calls > 0
    /\ hist.burst.writes = 0
    /\ \E s \in DOMAIN states : DOMAIN disk.sessions[s].last_fired_tags # {}

\* the awaited reply comes back to the tick
Returns == InFlight /\ tick'.pc # tick.pc

\* C17 (as stated): when the reply of an idle or daily dispatch comes back
\* and no message reached the session, the dispatch has failed: its tag is
\* not in the ledger, the idle deadline is as it was and the no-reply
\* counter is one higher.
C17_SendFailureIsDispatchFailure ==
    [][/\ tick.pc \in {"idle_wait", "daily_wait"}
       /\ tick'.pc # tick.pc
       /\ hist'.sent = hist.sent
       => LET u == tick.disp.umo
          IN  /\ tick'.result = "failed"
              /\ tick.disp.tag \notin DOMAIN states'[u].last_fired_tags
              /\ states'[u].next_idle_ts = states[u].next_idle_ts
              /\ states'[u].consecutive_no_reply_count
                     = states[u].consecutive_no_reply_count + 1]_vars

\* C18 (as stated): when the reply of a dispatch of any family comes back,
\* the no-reply counter of the session is one higher if the dispatch
\* failed and unchanged if it succeeded.
C18_FailureIncrementsCounter ==
    [][Returns /\ tick.disp.umo \in DOMAIN states
       => states'[tick.disp.umo].consecutive_no_reply_count
             = states[tick.disp.umo].consecutive_no_reply_count
               + (IF tick'.result = "failed" THEN 1 ELSE 0)]_vars

\* C19 (as stated): with a positive reply interval, the tick goes into the
\* cooldown sleep after a dispatch exactly when the dispatch succeeded.
C19_CooldownIffSuccess ==
    [][Returns /\ tick.reply_interval > 0
       => (tick'.pc \in {"idle_cool", "daily_cool", "remind_cool"}
              <=> tick'.result = "ok")]_vars

\* C20 (as stated): no idle dispatch is in flight for a session whose idle
\* deadline was cleared by a successful idle fire and that has had no
\* message and no `set after` since.
C20_IdleRearmedOnlyByActivity ==
    tick.pc = "idle_wait" => tick.disp.umo \notin hist.cleared

\* C21 (as stated): a daily dispatch begins for a session only if no slot
\* with the same HH:MM has fired for it on that day: slots that share a
\* clock minute give one dispatch for that minute.
C21_DuplicateSlotTimesCollapsed ==
    [][tick'.pc = "daily_wait" /\ tick.pc # "daily_wait"
       => \A n \in 1..3 :
             DailyTag(n, tick.now, <<HourOf(tick.now), MinuteOf(tick.now)>>)
                \notin DOMAIN states[tick'.disp.umo].last_fired_tags]_vars

C23_QuietPreservesIdle ==
    /\ [][\A s \in DOMAIN states \cap DOMAIN profiles :
            /\ tick.pc # "sleep"
            /\ _in_quiet(tick.now, IF profiles[s].quiet_hours # <<>>
                                   THEN profiles[s].quiet_hours ELSE tick.quiet)
            /\ budget'.events = budget.events
            => states'[s].next_idle_ts = states[s].next_idle_ts]_vars
    /\ [][\A s \in DOMAIN states \cap DOMAIN profiles :
            /\ tick.pc = "loop" /\ tick.todo # <<>> /\ Head(tick.todo) = s
            /\ tick' # tick
            /\ profiles[s].subscribed
            /\ ~_in_quiet(tick.now, IF profiles[s].quiet_hours # <<>>
                                    THEN profiles[s].quiet_hours ELSE tick.quiet)
            /\ ~_should_auto_unsubscribe(states[s], tick.now)
            /\ cfg.enable_idle_greetings /\ cfg.idle_prompt_templates
            /\ states[s].next_idle_ts > 0
            /\ states[s].next_idle_ts <= tick.now
            => /\ tick'.pc = "idle_wait"
               /\ tick'.disp.family = "idle"
               /\ tick'.disp.umo = s]_vars

\* C23: the idle trigger of s1 is dispatched by the fourth tick, at
\* 09:01:30, the first one after the window that closes at 09:01; the
\* deadline, still the one that passed at 08:59:45, and the three ticks
\* before were inside the window.
C23_Witness ==
    /\ tick.pc = "idle_wait"
    /\ tick.disp.umo = "s1"
    /\ budget.ticks = 2
    /\ tick.now = StartTime + 4 * SleepSeconds
    /\ states["s1"].next_idle_ts = StartTime + 15
    /\ _in_quiet(states["s1"].next_idle_ts, profiles["s1"].quiet_hours)
    /\ _in_quiet(tick.now - SleepSeconds, profiles["s1"].quiet_hours)
    /\ ~_in_quiet(tick.now, profiles["s1"].quiet_hours)

\* C24 (as stated): in the first tick after the quiet window of a session
\* (the tick before ended inside the window), the turn of the session does
\* not go by without a daily dispatch while, with both toggles on, an
\* enabled slot with a prompt has its HH:MM inside the window, earlier on
\* the day of the tick, and has not fired for the session on that day.
C24_QuietPreservesDailySlot ==
    [][tick.pc = "daily" /\ tick'.pc = "loop" /\ tick.umo \in DOMAIN states =>
        LET s == tick.umo
            q == IF profiles[s].quiet_hours # <<>> THEN profiles[s].quiet_hours
                 ELSE tick.quiet
            midnight == tick.now - TimeOfDay(tick.now)
            pending(n) ==
                LET hm == _parse_hhmm(cfg.daily_prompts[n].time)
                IN  /\ cfg.daily_prompts[n].enable
                    /\ cfg.daily_prompts[n].prompt
                    /\ hm # NoTime
                    /\ _in_quiet(midnight + TimeSec(hm), q)
                    /\ midnight + TimeSec(hm) <= tick.now
                    /\ ~has_fired(states[s], DailyTag(n, tick.now, hm))
        IN  ~ /\ cfg.enable_daily_greetings
              /\ profiles[s].daily_reminders_enabled
              /\ _in_quiet(hist.sleepFrom, q)
              /\ \E n \in 1..3 : pending(n)]_vars

\* C25 (as stated): a session that was auto-unsubscribed and that no
\* message has resubscribed since is not subscribed, across a shutdown and
\* a reload as well, and no idle or daily dispatch is in flight for it.
C25_AutoUnsubscribeDurable ==
    /\ \A s \in hist.unsubscribed \cap DOMAIN profiles : ~profiles[s].subscribed
    /\ tick.pc \in {"idle_wait", "daily_wait"} => tick.disp.umo \notin hist.unsubscribed

\* C26: in the per-session phase of a tick whose now is inside the quiet
\* window of a session, no step of the scheduler changes the ledger, the
\* idle deadline, the no-reply counter, the last activity time or the
\* subscription of that session.
C26_QuietTickChangesNothing ==
    [][\A s \in DOMAIN states \cap DOMAIN profiles :
        /\ tick.pc \in {"loop", "idle_wait", "idle_cool", "daily", "daily_wait",
                        "daily_cool"}
        /\ _in_quiet(tick.now, IF profiles[s].quiet_hours # <<>>
                               THEN profiles[s].quiet_hours ELSE tick.quiet)
        /\ budget'.events = budget.events
        => /\ states'[s].last_fired_tags = states[s].last_fired_tags
           /\ states'[s].next_idle_ts = states[s].next_idle_ts
           /\ states'[s].consecutive_no_reply_count = states[s].consecutive_no_reply_count
           /\ states'[s].last_ts = states[s].last_ts
           /\ profiles'[s].subscribed = profiles[s].subscribed]_vars

\* C26: in a tick inside the window of s1, whose idle deadline has passed,
\* the turn of s1 is over and a daily dispatch to s2, which has no window,
\* is in flight.
C26_Witness ==
    /\ tick.pc = "daily_wait"
    /\ tick.disp.umo = "s2"
    /\ "s1" \in tick.seen
    /\ profiles["s1"].subscribed
    /\ _in_quiet(tick.now, profiles["s1"].quiet_hours)
    /\ states["s1"].next_idle_ts > 0
    /\ states["s1"].next_idle_ts <= tick.now
    /\ states["s1"].last_fired_tags = NoDict

\* C27: the step in which a tick is run with the plugin disabled leaves
\* the scheduler in its sleep, has dispatched nothing, and leaves the
\* sessions' states, the profiles (subscriptions), the reminders, the
\* pending saves and the files as they were.
C27_DisabledTickIsNoOp ==
    [][budget'.ticks > budget.ticks /\ ~cfg.enable
       => /\ tick'.pc = "sleep"
          /\ tick'.log = <<>>
          /\ states' = states
          /\ profiles' = profiles
          /\ reminders' = reminders
          /\ saveTask' = saveTask
          /\ disk' = disk]_vars

\* C27: two ticks were run with the plugin disabled; the subscribed
\* session whose idle deadline was never set and the overdue one-shot
\* reminder are as they were loaded, and nothing is to be saved.
C27_Witness ==
    /\ ~cfg.enable
    /\ budget.ticks = 2
    /\ tick.pc = "sleep"
    /\ profiles["s1"].subscribed
    /\ states["s1"].next_idle_ts = 0
    /\ states["s1"].last_fired_tags = NoDict
    /\ \E rid \in DOMAIN reminders :
          ~IsRecurring(reminders[rid].at) /\ StrGE(FmtDateMinute(now), reminders[rid].at)
    /\ saveTask.pending = <<>>

\* C28: when the awaited reply of a dispatch of any family comes back as
\* a failure, no message has reached the session, and the last activity
\* time and the idle deadline of the session are as they were; so is its
\* ledger, unless the dispatch was for a one-shot reminder, which the
\* caller marks whatever the outcome.
C28_FailedDispatchNoSideEffects ==
    [][/\ tick.pc \in {"idle_wait", "daily_wait", "remind_wait"}
       /\ tick'.pc # tick.pc
       /\ tick'.result = "failed"
       /\ tick.disp.umo \in DOMAIN states
       => LET u == tick.disp.umo
          IN  /\ hist'.sent = hist.sent
              /\ states'[u].last_ts = states[u].last_ts
              /\ states'[u].next_idle_ts = states[u].next_idle_ts
              /\ tick.disp.family # "remind_once"
                   => states'[u].last_fired_tags = states[u].last_fired_tags]_vars

\* C28: the idle dispatch of the tick failed: nothing was sent, the
\* ledger is empty, the deadline is still the one that has passed and only
\* the no-reply counter has moved, so the next tick can dispatch again.
C28_Witness ==
    /\ tick.pc = "daily"
    /\ tick.result = "failed"
    /\ tick.disp.family = "idle"
    /\ hist.sent = NoDict
    /\ states[tick.disp.umo].last_fired_tags = NoDict
    /\ states[tick.disp.umo].last_ts = Yesterday
    /\ states[tick.disp.umo].next_idle_ts > 0
    /\ states[tick.disp.umo].next_idle_ts <= tick.now
    /\ states[tick.disp.umo].consecutive_no_reply_count = 1

\* C29: when the awaited reply of a dispatch of any family (idle, daily
\* slot, reminder) comes back as a success for a subscribed session, the
\* last activity time of that session is the time of the send and the
\* time of its last reply is as it was.
C29_SuccessUpdatesActivity ==
    [][/\ tick.pc \in {"idle_wait", "daily_wait", "remind_wait"}
       /\ tick'.pc # tick.pc
       /\ tick'.result = "ok"
       /\ tick.disp.umo \in DOMAIN states
       /\ tick.disp.umo \in DOMAIN profiles
       /\ profiles[tick.disp.umo].subscribed
       => LET u == tick.disp.umo
          IN  /\ states'[u].last_ts = now
              /\ states'[u].last_user_reply_ts = states[u].last_user_reply_ts]_vars

\* C30: right after a dispatch returns and its tag is marked, the ledger
\* of the session holds that tag with the current time, holds no entry
\* more than 7 days older than the current time, and still holds, with
\* its time, every other entry it held before that is at most 7 days old.
C30_LedgerTtl ==
    [][/\ tick.pc \in {"idle_wait", "daily_wait", "remind_wait"}
       /\ tick'.pc # tick.pc
       /\ tick'.result = "ok" \/ tick.disp.family = "remind_once"
       /\ tick.disp.umo \in DOMAIN states
       => LET before == states[tick.disp.umo].last_fired_tags
              after == states'[tick.disp.umo].last_fired_tags
          IN  /\ tick.disp.tag \in DOMAIN after
              /\ after[tick.disp.tag] = now
              /\ \A x \in DOMAIN after : now - after[x] <= TagTtlSeconds
              /\ \A x \in DOMAIN before \ {tick.disp.tag} :
                     now - before[x] <= TagTtlSeconds
                        => x \in DOMAIN after /\ after[x] = before[x]]_vars

\* C30: eight days after its first dispatch a session has been marked
\* twice more in one tick: the tag of the first dispatch is gone from the
\* ledger, and the tag marked earlier in this tick was kept by the
\* marking that followed it.
C30_Witness ==
    \E u \in DOMAIN states :
        LET ledger == states[u].last_fired_tags
        IN  /\ hist.everFired[u] \ DOMAIN ledger # {}
            /\ Cardinality(DOMAIN ledger) >= 2
            /\ \A x \in DOMAIN ledger : ledger[x] = tick.now
            /\ tick.now >= StartTime + 8 * SecondsPerDay

\* C31: a write of the session file or of the user file that fails leaves
\* the states in memory as they are and changes of the profiles and the
\* reminders only what the handler had changed before the save; the error
\* stays in the save: the timer task just ends, the session loop goes on
\* with the next session, the tick ends with its debounced save and the
\* scheduler sleeps until its next tick.
C31_PersistenceFailureNonFatal ==
    [][hist'.ioerrors # hist.ioerrors =>
        /\ states' = states
        /\ tick'.pc \notin FinishedPcs
        /\ \/ /\ tick.pc \in SuspendedPcs
              /\ tick' = tick
              /\ profiles' = profiles
              /\ reminders' = reminders
           \/ /\ tick.pc = "loop"
              /\ tick'.pc = "loop"
              /\ tick'.todo = Tail(tick.todo)
              /\ profiles' = [profiles EXCEPT ![Head(tick.todo)].subscribed = FALSE]
              /\ reminders' = reminders
           \/ /\ tick.pc = "remind"
              /\ tick'.pc = "sleep"
              /\ tick'.wake = now + SleepSeconds
              /\ saveTask'.refPending
              /\ saveTask'.pending[Len(saveTask'.pending)] = now + SaveDelaySeconds
              /\ profiles' = profiles
              /\ reminders' = Drop(reminders, tick.fired_ids)]_vars

\* C31: the user file could not be written at the end of the first tick
\* and the session file could not be written by the timer after it; the
\* user file still holds the reminder that memory has dropped, and the
\* next tick has found the idle trigger of s1 due from the state in memory
\* and awaits its reply.
C31_Witness ==
    /\ hist.ioerrors = 2
    /\ tick.pc = "idle_wait"
    /\ tick.now > StartTime + SleepSeconds
    /\ reminders = NoDict
    /\ disk.users.reminders # NoDict
    /\ disk.sessions # _save_session_data

\* C32 (as stated): for a schedule string `remind add` accepts, with a
\* one-digit or a two-digit hour, and a tick time, the one-shot reminder
\* is due iff the tick time cut to its minute is at or after the scheduled
\* date and time.
C32_OneShotDueIsChronological ==
    qout # NoInput =>
        qout[1] = (qin.t - (qin.t % SecondsPerMinute) >= qin.scheduled)

\* C33 (as stated): when a message of a session was handled while the idle
\* dispatch to that session was awaited (its deadline, which had passed
\* when the dispatch began, is ahead of the tick again), then after the
\* dispatch has returned and its bookkeeping is done the deadline is still
\* the one the message set and the no-reply counter is still 0.
C33_ActivityDuringDispatchKept ==
    [][/\ tick.pc = "idle_wait"
       /\ tick'.pc # tick.pc
       /\ tick.disp.umo \in DOMAIN states
       /\ states[tick.disp.umo].last_user_reply_ts >= tick.now
       /\ states[tick.disp.umo].next_idle_ts > tick.now
       => LET u == tick.disp.umo
          IN  /\ states'[u].next_idle_ts = states[u].next_idle_ts
              /\ states'[u].consecutive_no_reply_count = 0]_vars

\* C34 (as stated): a message that changes the state of a session starts
\* the debounce timer, so once the debounce delay has passed since the
\* message and no save timer is pending, the session file holds the state
\* the message left (its reply time) and the user file holds the profile
\* of the session, whether or not a tick has ended since.
C34_ActivityReachesDisk ==
    \A u \in DOMAIN states :
        /\ states[u].last_user_reply_ts >= StartTime
        /\ now >= states[u].last_user_reply_ts + SaveDelaySeconds
        /\ saveTask.pending = <<>>
        => /\ u \in DOMAIN disk.sessions
           /\ disk.sessions[u].last_user_reply_ts = states[u].last_user_reply_ts
           /\ u \in DOMAIN disk.users.profiles

\* C35 (as stated): in manual subscribe mode a step turns the subscribed
\* flag of a session to true only for a session that was subscribed before
\* and was auto-unsubscribed for inactivity; a session without a profile,
\* or one that was never auto-unsubscribed, stays unsubscribed whatever
\* messages it sends.
C35_ResubscribeOnlyReactivates ==
    [][\A u \in DOMAIN profiles' :
          /\ cfg.subscribe_mode = "manual"
          /\ profiles'[u].subscribed
          /\ ~(u \in DOMAIN profiles /\ profiles[u].subscribed)
          => u \in hist.unsubscribed]_vars

\* C36 (as stated): with the scheduler and the reminders enabled, a tick
\* that ends leaves in the store no one-shot reminder whose time had come
\* when the tick began, and a tick in progress with such a reminder in the
\* store leads to its removal unless the plugin is stopped; whether or
\* not the session of the reminder has a state, and whatever its ledger.
C36_DueOneShotRemoved ==
    /\ [][tick.pc = "remind" /\ tick'.pc = "sleep" /\ cfg.enable_reminders
            => \A rid \in DOMAIN reminders' :
                  \/ IsRecurring(reminders'[rid].at)
                  \/ ~StrGE(FmtDateMinute(tick.now), reminders'[rid].at)]_vars
    /\ \A i \in 1..Len(RidOrder) :
          LET rid == RidOrder[i]
          IN  (/\ cfg.enable /\ cfg.enable_reminders
               /\ tick.pc \in {"loop", "remind"}
               /\ Stored(rid)
               /\ ~IsRecurring(reminders[rid].at)
               /\ StrGE(FmtDateMinute(tick.now), reminders[rid].at))
                  ~> (~Stored(rid) \/ tick.pc \in FinishedPcs)

\* C37 (as stated): with the 30 s sleep between ticks no clock minute is
\* without a snapshot: when a tick ends, whatever it dispatched and
\* however long it cooled down, the snapshot of the next tick, taken when
\* the sleep ends, falls in the minute of this tick's snapshot or in the
\* minute after it.
C37_NoMinuteSkipped ==
    [][tick.pc = "remind" /\ tick'.pc = "sleep"
          => tick'.wake \div SecondsPerMinute
                <= (tick.now \div SecondsPerMinute) + 1]_vars

====
